---- MODULE Spec2Model ----
(***************************************************************************)
(* Model of the STL CAM tool: the toolpath generator                       *)
(* (toolpath-generator.js), the STL loader (stl-loader.js), the G-code     *)
(* exporter and the selection tool (selection-tool.js) and the handlers    *)
(* of the application that drive them (app.js).                            *)
(*                                                                         *)
(* Lengths are integers in units of 0.1 mm: the integer n stands for the   *)
(* double nearest to n / 10. The program's default parameters (tool        *)
(* diameter 1.0, stepover 40 %, stepdown 0.5) and the derived scan step    *)
(* (0.2 * diameter) are whole numbers. The program computes in doubles:    *)
(* on the volumes and parameters of this model the positions of the scan   *)
(* and its row and step counts are the doubles of the decimal results,     *)
(* while a layer's level zStart - layerIdx * stepdown and the layer count  *)
(* are not always; these two carry the outcome of the double arithmetic.   *)
(***************************************************************************)
EXTENDS Integers, Sequences, FiniteSets, TLC

\* ------------------------------------------------------------------ bounds
\* Largest X, Y and Z coordinate of a selection volume.
MaxX == 4
MaxY == 9
MaxZ == 7
\* Largest number of triangles of a byte stream.
MaxTris == 2
\* Largest number of layers and of points per layer of an exported path.
MaxLayers == 2
MaxPoints == 101
\* Largest number of generate calls of the application in flight at once.
MaxInFlight == 2
\* Largest number of selection fill objects in the scene.
MaxFills == 2
\* Largest number of generate calls of one generator unsettled at once:
\* where the calls are made one at a time, and where they overlap.
MaxCalls == 1
MaxOverlap == 2

\* ------------------------------------------------------- program constants
\* findSurfaceAtPoint casts its ray from maxZ + 100 (mm).
RayMargin == 1000
\* A fixed-record stream is 84 bytes of header and count, then 50 bytes per
\* triangle.
HeaderSize == 84
RecordSize == 50
\* The byte offset of the triangle count.
CountOffset == 80
\* The exporter writes a progress comment every 50 points.
ProgressEvery == 50

VARIABLES
  mesh,       \* this.mesh of the generator: the name of a mesh, or "null"
  bounds,     \* this.bounds of the generator: a box, or NullBox
  params,     \* this.params of the generator
  toolpath,   \* this.toolpath of the generator: a sequence of layers
  pc,         \* position of the latest generate call: idle, loop (at the loop
              \* test), scan (in the progress callback of a layer), scanned
              \* (at the await of line 60), sleep, returned, threw
  frame,      \* the arguments mesh and bounds and the locals of the latest
              \* generate call
  progress,   \* the values the progress callback received in this call, as <<k, L>>
  nQueries,   \* findSurfaceAtPoint calls of this call that reached the raycaster
  result,     \* the Path the current call returned, once it has
  resultLive, \* that Path is still the array this.toolpath
  others,     \* the calls overtaken by a later call, the earliest first: each
              \* one's position and locals and, once it has returned, the
              \* Path it returned
  timers,     \* the pending timers of sleep(0), the earliest set first: 0
              \* for the latest call, i for the overtaken call others[i]
  micro,      \* the queued continuations of the await of line 60, the
              \* earliest queued first, named as the timers are
  steady,     \* no setParams since the current call began
  alone,      \* no other call was unsettled when the current call began, and
              \* no clear has run since
  repeat,     \* the current call repeats the previous, completed, call's inputs
  prevPath,   \* the Path that previous call returned (when repeat)
  buffer,     \* the byte stream of the last STLLoader.load call
  geometry,   \* this.geometry of the loader: a geometry, or NullGeometry
  loadOutcome,\* how the last load call ended: none, returned, RangeError
  format,     \* the parser the last load call chose: none, binary, ascii
  expParams,  \* this.params of the exporter
  gcode,      \* the lines the last export call returned
  exported,   \* the path and the parameters of the last export call
  lastUpdate, \* the last parameter update: the object or objects it was made
              \* on, its argument, and the fields each object held before
  selEnabled, \* selectionTool.enabled
  isSelecting,\* selectionTool.isSelecting
  hasHelper,  \* selectionTool.selectionHelper is in the scene
  selBounds,  \* selectionTool.selectionBounds
  startPoint, \* selectionTool.startPoint
  endPoint,   \* selectionTool.endPoint
  currentModel, \* the application holds a loaded model
  btnDisabled,\* the disabled flags of the toggle, clear and generate buttons
  inFlight,   \* generate calls of the application that have not finished
  handed,     \* the volume the application passed to its last generate call,
              \* which is this.bounds of the application's generator
  modelMesh,  \* viewport.modelMesh: the file the shown mesh came from, or "null"
  currentToolpath, \* currentToolpath of the application
  lastExport, \* the last export that was not refused: the models the layers
              \* it serialized were scanned on, and the model loaded then
  calls,      \* the application's generate calls in flight, each in
              \* sleep(0), in the order their timers were set: the bounds and
              \* the model each was handed, and its numLayers and layerIdx
  shared,     \* this.mesh, this.params.stepdown and this.toolpath of the
              \* application's generator
  mixedScan,  \* a layer was scanned against bounds other than its call's
  nFill,      \* selection fill objects in the scene
  controlsEnabled, \* viewport.controls.enabled
  orbitState, \* OrbitControls.state: NONE, ROTATE, PAN
  cameraDragged \* a pointer move has rotated or panned the camera

genVars == <<mesh, bounds, params, toolpath, pc, frame, progress, nQueries,
             result, resultLive, others, timers, micro, steady, alone, repeat, prevPath>>

loaderVars == <<buffer, geometry, loadOutcome, format>>

exporterVars == <<expParams, gcode, exported>>

appVars == <<selEnabled, isSelecting, hasHelper, selBounds, startPoint, endPoint,
             currentModel, btnDisabled, inFlight, handed, modelMesh,
             currentToolpath, lastExport, calls, shared, mixedScan, nFill,
             controlsEnabled>>

orbitVars == <<orbitState, cameraDragged>>

uiVars == <<appVars, orbitVars>>

otherVars == <<genVars, loaderVars, exporterVars, lastUpdate>>

vars == <<otherVars, uiVars>>

\* --------------------------------------------------------------- helpers
\* Math.ceil(a / b) for b > 0.
CeilDiv(a, b) == (a + b - 1) \div b

Max2(a, b) == IF a >= b THEN a ELSE b

Reverse(s) == [i \in 1..Len(s) |-> s[Len(s) + 1 - i]]

Vec(x, y, z) == [x |-> x, y |-> y, z |-> z]

NullBox == [null |-> TRUE]

\* ------------------------------------------------------------------ levels
\* A height the program computes by subtraction: the decimal value n it
\* stands for, and the sign e of the double the program holds minus the
\* double nearest to n / 10 (the difference is a few units in the last
\* place).
Level(n, e) == [n |-> n, e |-> e]

\* A height that is the double nearest to its decimal value: a coordinate of
\* the selection volume or of the mesh.
Exact(n) == Level(n, 0)

\* z <= l, for an exact height z and a level l.
AtMost(z, l) == z < l.n \/ (z = l.n /\ l.e >= 0)

\* a <= b, for two levels.
LevelLeq(a, b) == a.n < b.n \/ (a.n = b.n /\ a.e <= b.e)

\* Math.max(a, b)
LevelMax(a, b) == IF LevelLeq(a, b) THEN b ELSE a

\* The absent result of a surface query; a found height z is <<z>>.
Null == <<>>

\* --------------------------------------------------------------- parameters
DefaultParams ==
  [toolDiameter |-> 10, stepover |-> 40, stepdown |-> 5, feedRate |-> 100, safeZ |-> 50]

ParamFields == {"toolDiameter", "stepover", "stepdown", "feedRate", "safeZ"}

\* The values a parameter update may carry. stepover is a percentage of the
\* tool diameter (the program holds the fraction percentage / 100).
ParamValues(f) ==
  CASE f = "toolDiameter" -> {10, 20}
    [] f = "stepover"     -> {40}
    [] f = "stepdown"     -> {3, 5}
    [] f = "feedRate"     -> {100}
    [] f = "safeZ"        -> {50}

ParamUpdates ==
  UNION {{p \in [S -> {10, 20, 40, 100, 3, 5, 50}] : \A f \in S : p[f] \in ParamValues(f)}
         : S \in SUBSET ParamFields}

\* The argument alone, the held fields dropped.
ReplaceParams(old, p) == p

\* { ...old, ...p }
MergeParams(old, p) ==
  [f \in (DOMAIN old) \cup (DOMAIN p) |-> IF f \in DOMAIN p THEN p[f] ELSE old[f]]

\* ------------------------------------------------------------------- meshes
\* A mesh is a set of horizontal rectangular plates (each a quad of two
\* triangles): a vertical ray at (x, y) meets a plate at the plate's z when
\* (x, y) lies on it.
Plate(x0, x1, y0, y1, z) == [x0 |-> x0, x1 |-> x1, y0 |-> y0, y1 |-> y1, z |-> z]

MeshNames == {"empty", "plate0", "step", "roof"}

Plates(m) ==
  CASE m = "empty"  -> {}
    [] m = "plate0" -> {Plate(-1, MaxX + 2, -1, MaxY + 2, 0)}
    [] m = "step"   -> {Plate(-1, 2, -1, MaxY + 2, MaxZ - 2),
                        Plate(-1, 2, -1, MaxY + 2, 3),
                        Plate(3, MaxX + 2, -1, MaxY + 2, 1)}
    [] m = "roof"   -> {Plate(-1, MaxX + 2, -1, MaxY + 2, RayMargin + MaxZ + 2),
                        Plate(-1, MaxX + 2, -1, MaxY + 2, MaxZ + 1),
                        Plate(-1, MaxX + 2, -1, MaxY + 2, -1)}

\* The heights at which the vertical line through (x, y) meets mesh m.
HitsAt(m, x, y) ==
  {p.z : p \in {q \in Plates(m) : q.x0 <= x /\ x <= q.x1 /\ q.y0 <= y /\ y <= q.y1}}

RECURSIVE SortDesc(_)
SortDesc(S) ==
  IF S = {} THEN <<>>
  ELSE LET top == CHOOSE z \in S : \A w \in S : w <= z
       IN  <<top>> \o SortDesc(S \ {top})

\* The hits at or below the origin in the order of the mesh's faces, lowest
\* first, not ordered by distance from the origin.
IntersectUnsorted(m, x, y, originZ) ==
  LET sorted == SortDesc({z \in HitsAt(m, x, y) : z <= originZ})
  IN  [i \in 1..Len(sorted) |-> sorted[Len(sorted) + 1 - i]]

\* raycaster.set(origin, (0, 0, -1)); raycaster.intersectObject(mesh): the
\* hits at or below the origin, nearest (highest) first.
IntersectObject(m, x, y, originZ) ==
  SortDesc({z \in HitsAt(m, x, y) : z <= originZ})

\* ------------------------------------------------------ selection volumes
\* The whole volume.
FullBox == [min |-> Vec(0, 0, 0), max |-> Vec(MaxX, MaxY, MaxZ)]

\* A volume that reaches below Z = 0, one unit short of MaxY in Y.
SunkenBox == [min |-> Vec(0, 0, -3), max |-> Vec(MaxX, MaxY - 1, MaxZ - 4)]

\* A volume from Z = -0.2 to Z = 0.4: its Z extent is twice the stepdown 0.3.
ShallowBox == [min |-> Vec(0, 0, -2), max |-> Vec(MaxX, MaxY, 4)]

\* Volumes with a positive extent on every axis.
ProperBoxes ==
  {[min |-> Vec(x0, 0, z0), max |-> Vec(MaxX, MaxY, z1)] :
     x0 \in {0, 1}, z0 \in {0, 2}, z1 \in {MaxZ - 1, MaxZ}}
  \cup {SunkenBox, ShallowBox}

\* Volumes with a zero or negative extent on one axis.
DegenerateBoxes ==
  {[min |-> Vec(0, 0, 0), max |-> Vec(0, MaxY, MaxZ)],
   [min |-> Vec(1, 0, 0), max |-> Vec(0, MaxY, MaxZ)],
   [min |-> Vec(0, 0, 0), max |-> Vec(MaxX, 0, MaxZ)],
   [min |-> Vec(0, 0, 2), max |-> Vec(MaxX, MaxY, 2)],
   [min |-> Vec(0, 0, 2), max |-> Vec(MaxX, MaxY, 0)]}

Boxes == ProperBoxes \cup DegenerateBoxes

\* Positive extent on each of the three axes.
ProperBox(b) ==
  /\ b.max.x - b.min.x > 0
  /\ b.max.y - b.min.y > 0
  /\ b.max.z - b.min.z > 0

\* ------------------------------------------------ the generator's methods
\* checkNeedsMachining without the upper X test.
CheckNeedsMachiningNoXMax(x, y, z) ==
  ~ \/ x < bounds.min.x
    \/ y < bounds.min.y \/ y > bounds.max.y
    \/ z < bounds.min.z \/ z > bounds.max.z

\* checkNeedsMachining(x, y, z)
CheckNeedsMachining(x, y, z) ==
  ~ \/ x < bounds.min.x \/ x > bounds.max.x
    \/ y < bounds.min.y \/ y > bounds.max.y
    \/ z < bounds.min.z \/ z > bounds.max.z

\* The hit test without the floor.
HitInRangeNoFloor(z, maxZ) == AtMost(z, maxZ)

\* The test of findSurfaceAtPoint's loop over the hits: hit.point.z <= maxZ
\* && hit.point.z >= this.bounds.min.z, for the level maxZ.
HitInRange(z, maxZ) == AtMost(z, maxZ) /\ z >= bounds.min.z

\* findSurfaceAtPoint(x, y, maxZ): the first hit in range, or null. The ray
\* starts at maxZ + 100.
FindSurfaceAtPoint(x, y, maxZ) ==
  LET intersects == IntersectObject(mesh, x, y, maxZ.n + RayMargin)
      inRange    == SelectSeq(intersects, LAMBDA z : HitInRange(z, maxZ))
  IN  IF Len(inRange) > 0 THEN <<Head(inRange)>> ELSE Null

\* const scanStep = this.params.toolDiameter * 0.2
ScanStep == (params.toolDiameter * 2) \div 10

\* The number of X positions scanLine visits: i = 0 .. numSteps.
NumScanPositions(xStart, xEnd) ==
  LET numSteps == CeilDiv(xEnd - xStart, ScanStep)
  IN  IF numSteps >= 0 THEN numSteps + 1 ELSE 0

\* The surface point itself, not raised.
SurfacePoint(x, y, surfaceZ, toolRadius) == Vec(x, y, surfaceZ)

\* new THREE.Vector3(x, y, surfaceZ + toolRadius)
RaisedPoint(x, y, surfaceZ, toolRadius) == Vec(x, y, surfaceZ + toolRadius)

\* scanLine(xStart, xEnd, y, z, toolRadius)
ScanLine(xStart, xEnd, y, z, toolRadius) ==
  LET n      == NumScanPositions(xStart, xEnd)
      found  == [k \in 1..n |->
                   LET x == xStart + (k - 1) * ScanStep
                   IN  [x |-> x, s |-> FindSurfaceAtPoint(x, y, z)]]
      keep(c) == c.s # Null /\ CheckNeedsMachining(c.x, y, c.s[1])
      kept   == SelectSeq(found, keep)
  IN  [k \in 1..Len(kept) |-> RaisedPoint(kept[k].x, y, kept[k].s[1], toolRadius)]

\* A row that is never reversed.
ScanRowNoReverse(scanIdx, y, zLevel, toolRadius) ==
  ScanLine(bounds.min.x, bounds.max.x, y, zLevel, toolRadius)

\* One row of generateContourAtZ: scan, then reverse the odd rows.
ScanRow(scanIdx, y, zLevel, toolRadius) ==
  LET scanPoints == ScanLine(bounds.min.x, bounds.max.x, y, zLevel, toolRadius)
  IN  IF scanIdx % 2 = 1 THEN Reverse(scanPoints) ELSE scanPoints

\* const numScans = Math.ceil((yEnd - yStart) / stepover)
NumScans(stepover) == CeilDiv(bounds.max.y - bounds.min.y, stepover)

\* The loop of generateContourAtZ from row scanIdx on.
RECURSIVE ContourFrom(_, _, _, _)
ContourFrom(scanIdx, zLevel, stepover, toolRadius) ==
  IF scanIdx >= NumScans(stepover) THEN <<>>
  ELSE LET y == bounds.min.y + scanIdx * stepover
       IN  IF y > bounds.max.y THEN <<>>
           ELSE ScanRow(scanIdx, y, zLevel, toolRadius)
                  \o ContourFrom(scanIdx + 1, zLevel, stepover, toolRadius)

\* generateContourAtZ(zLevel, stepover, toolRadius)
GenerateContourAtZ(zLevel, stepover, toolRadius) ==
  ContourFrom(0, zLevel, stepover, toolRadius)

\* The surface queries generateContourAtZ makes: one per row and X position.
ContourQueries(stepover) ==
  LET rows == Max2(NumScans(stepover), 0)
  IN  rows * NumScanPositions(bounds.min.x, bounds.max.x)

\* ---------------------------------------------------------- the generator
\* The calls (zStart, zEnd, stepdown) for which the double quotient
\* (zStart - zEnd) / stepdown lies above a whole number that the decimal
\* quotient does not exceed, e.g. (0.8 - 0.2) / 0.3 = 2.0000000000000004;
\* tabulated for zStart and zEnd from -0.4 to 1.0 and stepdown 0.3 and 0.5.
QuotientAbove ==
  {<<-1, -4, 3>>, <<1, -2, 3>>, <<2, -4, 3>>, <<2, -1, 3>>, <<2, 7, 5>>,
   <<4, -2, 3>>, <<4, 1, 3>>, <<4, 7, 3>>, <<8, -4, 3>>, <<8, 2, 3>>,
   <<8, 5, 3>>, <<9, 3, 3>>, <<9, 6, 3>>, <<10, 7, 3>>}

\* const numLayers = Math.ceil((zStart - zEnd) / this.params.stepdown)
NumLayers(zStart, zEnd, stepdown) ==
  CeilDiv(zStart - zEnd, stepdown)
    + (IF <<zStart, zEnd, stepdown>> \in QuotientAbove THEN 1 ELSE 0)

IdleFrame ==
  [mesh |-> "null", bounds |-> NullBox,
   toolRadius |-> 0, stepover |-> 0, zStart |-> 0, zEnd |-> 0,
   numLayers |-> 0, layerIdx |-> 0, actualZ |-> Exact(0), contourPoints |-> <<>>]

\* The generator after construction.
GenInit ==
  /\ mesh = "null"
  /\ bounds = NullBox
  /\ params = DefaultParams
  /\ toolpath = <<>>
  /\ pc = "idle"
  /\ frame = IdleFrame
  /\ progress = <<>>
  /\ nQueries = 0
  /\ result = <<>>
  /\ resultLive = FALSE
  /\ others = <<>>
  /\ timers = <<>>
  /\ micro = <<>>
  /\ steady = TRUE
  /\ alone = TRUE
  /\ repeat = FALSE
  /\ prevPath = <<>>

\* A call is suspended at one of its two awaits: after the scan of a layer
\* (line 60) or in sleep(0) (line 71).
Suspended(p) == p \in {"scanned", "sleep"}

\* A call that has begun and has neither returned nor thrown: it is inside
\* the progress callback it made at the head of a layer (line 56), or it is
\* suspended.
Unsettled(p) == p = "scan" \/ Suspended(p)

\* The calls other than the latest that have not settled.
OthersInFlight == SelectSeq(others, LAMBDA c : Unsettled(c.pc))

\* A continuation of the await of line 60 is queued: no timer fires before
\* it has run.
PushPending == micro # <<>>

\* The call that is inside its progress callback, the callback of line 56
\* not having returned: 0 for the latest call, i for others[i], -1 when no
\* call is. A call made from within a callback runs up to its first await
\* before the callback returns, so of several calls inside their callbacks
\* it is the latest.
InCallback ==
  IF pc = "scan" THEN 0
  ELSE LET S == {i \in DOMAIN others : others[i].pc = "scan"}
       IN  IF S = {} THEN -1 ELSE CHOOSE i \in S : \A j \in S : j <= i

\* No generate call is executing: the continuations that are queued and the
\* timers that are due run one by one, each when the code before it has run
\* to its end.
Unwound == pc \notin {"loop", "scan"} /\ InCallback = -1

\* Code of the caller runs wherever generate is not executing its own
\* statements: before and after a call, in the progress callback a call
\* makes at the head of each layer, in a microtask queued before the
\* continuation of an await, and in a task of its own while calls sleep.
\* Between the start of a call, or the firing of its timer, and the callback
\* of the layer generate runs without a break.
AtRest == pc # "loop"

\* The number of calls that have not settled.
NumUnsettled == Len(OthersInFlight) + (IF Unsettled(pc) THEN 1 ELSE 0)

\* The place others[i] takes among the calls kept when a new call begins.
PlaceKept(i) ==
  Len(SelectSeq(SubSeq(others, 1, i), LAMBDA c : Unsettled(c.pc)))

\* A queue of calls (continuations, or timers) once a new call has begun and
\* the latest call has taken the place last among n overtaken calls.
Renumbered(q, n) ==
  [k \in DOMAIN q |-> IF q[k] = 0 THEN n ELSE PlaceKept(q[k])]

\* An array a settled call returned is this.toolpath for as long as no
\* later call and no clear replaces it: a push changes it too.
Aliased(path, live, tp) == IF live THEN tp ELSE path

\* The settled calls among cs, each holding the array it returned, tp being
\* this.toolpath after the step.
Following(cs, tp) ==
  [i \in DOMAIN cs |-> [cs[i] EXCEPT !.result = Aliased(cs[i].result, cs[i].live, tp)]]

\* The calls cs once this.toolpath is a new array.
Detached(cs) == [i \in DOMAIN cs |-> [cs[i] EXCEPT !.live = FALSE]]

\* setParams(p)
SetParams(p) ==
  /\ AtRest
  /\ params' = MergeParams(params, p)
  /\ steady' = FALSE
  /\ repeat' = FALSE
  /\ prevPath' = <<>>
  /\ UNCHANGED <<mesh, bounds, toolpath, pc, frame, progress, nQueries, result,
                 resultLive, others, timers, micro, alone>>
  /\ UNCHANGED loaderVars

\* clear(): this.toolpath = [], this.mesh = null, this.bounds = null.
Clear ==
  /\ AtRest
  /\ toolpath' = <<>>
  /\ mesh' = "null"
  /\ bounds' = NullBox
  /\ resultLive' = FALSE
  /\ others' = Detached(others)
  /\ alone' = FALSE
  /\ repeat' = FALSE
  /\ prevPath' = <<>>
  /\ UNCHANGED <<params, pc, frame, progress, nQueries, result, timers, micro, steady>>
  /\ UNCHANGED loaderVars

\* The accumulated path kept across calls.
StaleToolpath == toolpath

\* The first layer of the accumulated path kept across calls.
KeptFirstLayer == IF toolpath = <<>> THEN <<>> ELSE <<toolpath[1]>>

\* this.toolpath = [] at the start of generate.
FreshToolpath == <<>>

\* generate(m, b, progressCallback), up to the first loop test, the
\* generator holding the parameters ps when it is called: the instance
\* fields are overwritten and the locals computed. A call made while earlier
\* calls have not settled leaves them where they are, on the fields it has
\* overwritten.
GenerateWith(ps, m, b) ==
  /\ AtRest
  /\ others' = Detached(OthersInFlight)
                 \o (IF Unsettled(pc)
                       THEN <<[pc |-> pc, frame |-> frame, result |-> <<>>, live |-> FALSE]>>
                       ELSE <<>>)
  /\ timers' = Renumbered(timers, Len(others'))
  /\ micro' = Renumbered(micro, Len(others'))
  /\ mesh' = m
  /\ bounds' = b
  /\ toolpath' = FreshToolpath
  /\ frame' = [mesh       |-> m,
               bounds     |-> b,
               toolRadius |-> ps.toolDiameter \div 2,
               stepover   |-> (ps.toolDiameter * ps.stepover) \div 100,
               zStart     |-> b.max.z,
               zEnd       |-> b.min.z,
               numLayers  |-> NumLayers(b.max.z, b.min.z, ps.stepdown),
               layerIdx   |-> 0,
               actualZ    |-> Exact(0),
               contourPoints |-> <<>>]
  /\ pc' = "loop"
  /\ progress' = <<>>
  /\ nQueries' = 0
  /\ alone' = (others' = <<>>)
  /\ repeat' = (pc = "returned" /\ steady /\ alone /\ alone'
                  /\ ps = params /\ m = mesh /\ b = bounds)
  /\ prevPath' = IF repeat' THEN result ELSE <<>>
  /\ steady' = TRUE
  /\ result' = <<>>
  /\ resultLive' = FALSE
  /\ params' = ps
  /\ UNCHANGED loaderVars

\* generate(m, b, progressCallback) on the parameters the generator holds.
Generate(m, b) == GenerateWith(params, m, b)

\* The calls (zStart, layerIdx, stepdown) for which the double
\* zStart - layerIdx * stepdown lies below the double nearest to the decimal
\* result, e.g. 0.6 - 1 * 0.5 = 0.09999999999999998; tabulated for zStart
\* from -0.4 to 1.0, layerIdx up to 5 and stepdown 0.3 and 0.5.
RoundsBelow ==
  {<<6, 1, 5>>, <<7, 1, 3>>, <<7, 2, 3>>, <<7, 1, 5>>, <<7, 2, 5>>}

\* The calls for which it lies above, e.g. 0.8 - 2 * 0.3 =
\* 0.20000000000000007; the same domain.
RoundsAbove ==
  {<<-4, 3, 3>>, <<-3, 2, 3>>, <<-2, 3, 3>>, <<-1, 3, 3>>, <<0, 3, 3>>,
   <<1, 1, 3>>, <<1, 3, 3>>, <<1, 4, 3>>, <<2, 1, 3>>, <<2, 2, 3>>,
   <<3, 3, 3>>, <<3, 4, 3>>, <<4, 1, 3>>, <<4, 2, 3>>, <<4, 3, 3>>,
   <<4, 4, 3>>, <<4, 1, 5>>, <<5, 2, 3>>, <<5, 3, 3>>, <<6, 3, 3>>,
   <<7, 3, 3>>, <<8, 2, 3>>, <<8, 3, 3>>, <<8, 4, 3>>, <<8, 1, 5>>,
   <<8, 2, 5>>, <<9, 1, 3>>, <<9, 2, 3>>, <<9, 3, 3>>, <<9, 4, 3>>,
   <<9, 2, 5>>, <<10, 3, 3>>, <<10, 4, 3>>}

\* The sign of the double zStart - layerIdx * stepdown minus the double
\* nearest to the decimal result.
RoundingSign(zStart, layerIdx, stepdown) ==
  CASE <<zStart, layerIdx, stepdown>> \in RoundsBelow -> -1
    [] <<zStart, layerIdx, stepdown>> \in RoundsAbove -> 1
    [] OTHER -> 0

\* The level one stepdown lower.
ZLevelOneDown(zStart, layerIdx, stepdown) ==
  Level(zStart - (layerIdx + 1) * stepdown, RoundingSign(zStart, layerIdx + 1, stepdown))

\* const zLevel = zStart - layerIdx * this.params.stepdown
ZLevel(zStart, layerIdx, stepdown) ==
  Level(zStart - layerIdx * stepdown, RoundingSign(zStart, layerIdx, stepdown))

\* The callback's argument one layer short.
ProgressBehind(layerIdx, numLayers) == <<layerIdx, numLayers>>

\* The argument of the progress callback, (layerIdx + 1) / numLayers, as the
\* pair of its numerator and denominator.
ProgressValue(layerIdx, numLayers) == <<layerIdx + 1, numLayers>>

\* The head of one loop iteration: the layer's z and the progress callback.
LayerBegin ==
  /\ pc = "loop"
  /\ frame.layerIdx < frame.numLayers
  /\ LET zLevel == ZLevel(frame.zStart, frame.layerIdx, params.stepdown)
     IN  frame' = [frame EXCEPT !.actualZ = LevelMax(zLevel, Exact(frame.zEnd))]
  /\ progress' = Append(progress, ProgressValue(frame.layerIdx, frame.numLayers))
  /\ pc' = "scan"
  /\ UNCHANGED <<mesh, bounds, params, toolpath, nQueries, result, resultLive, others,
                 timers, micro, steady, alone, repeat, prevPath>>
  /\ UNCHANGED loaderVars

\* How the call generateContourAtZ(f.actualZ, f.stepover, f.toolRadius) of
\* line 60 ends, for the locals f of a call: it throws at its first read of
\* this.bounds when clear has run, and at its first surface query when there
\* is no mesh; else it gives the contour.
ScanOutcome(f) ==
  IF bounds = NullBox
    THEN [threw |-> TRUE, queries |-> 0, contourPoints |-> <<>>]
    ELSE IF mesh = "null" /\ ContourQueries(f.stepover) > 0
      THEN [threw |-> TRUE, queries |-> 1, contourPoints |-> <<>>]
      ELSE [threw |-> FALSE, queries |-> ContourQueries(f.stepover),
            contourPoints |-> GenerateContourAtZ(f.actualZ, f.stepover, f.toolRadius)]

\* The layer is scanned, up to the await of line 60: the call is suspended
\* with the contour in hand, or it throws.
ScanLayer ==
  /\ pc = "scan"
  /\ LET outcome == ScanOutcome(frame)
     IN  /\ pc' = IF outcome.threw THEN "threw" ELSE "scanned"
         /\ nQueries' = nQueries + outcome.queries
         /\ frame' = [frame EXCEPT !.contourPoints = outcome.contourPoints]
         /\ micro' = IF outcome.threw THEN micro ELSE Append(micro, 0)
  /\ UNCHANGED <<mesh, bounds, params, toolpath, progress, result, resultLive, others,
                 timers, steady, alone, repeat, prevPath>>
  /\ UNCHANGED loaderVars

\* The array tp after the contour of the layer of the locals f is in: a
\* layer with no points is not appended.
PushLayer(tp, f) ==
  IF Len(f.contourPoints) > 0
    THEN Append(tp, [layer  |-> f.layerIdx,
                     z      |-> f.actualZ,
                     points |-> f.contourPoints])
    ELSE tp

\* The continuation of the latest call's await of line 60 runs, in its turn:
\* it appends the layer to this.toolpath and suspends the call in sleep(0).
AppendLayer ==
  /\ Unwound
  /\ micro # <<>>
  /\ Head(micro) = 0
  /\ toolpath' = PushLayer(toolpath, frame)
  /\ others' = Following(others, toolpath')
  /\ micro' = Tail(micro)
  /\ timers' = Append(timers, 0)
  /\ result' = Aliased(result, resultLive, toolpath')
  /\ frame' = [frame EXCEPT !.contourPoints = <<>>]
  /\ pc' = "sleep"
  /\ UNCHANGED <<mesh, bounds, params, progress, nQueries, resultLive,
                 steady, alone, repeat, prevPath>>
  /\ UNCHANGED loaderVars

\* The timer of sleep(0) fires, in its turn: layerIdx++.
Resume ==
  /\ Unwound
  /\ ~PushPending
  /\ timers # <<>>
  /\ Head(timers) = 0
  /\ timers' = Tail(timers)
  /\ frame' = [frame EXCEPT !.layerIdx = frame.layerIdx + 1]
  /\ pc' = "loop"
  /\ UNCHANGED <<mesh, bounds, params, toolpath, progress, nQueries, result, resultLive,
                 others, micro, steady, alone, repeat, prevPath>>
  /\ UNCHANGED loaderVars

\* The loop is over: return this.toolpath, the array itself.
Return ==
  /\ pc = "loop"
  /\ frame.layerIdx >= frame.numLayers
  /\ result' = toolpath
  /\ resultLive' = TRUE
  /\ pc' = "returned"
  /\ UNCHANGED <<mesh, bounds, params, toolpath, frame, progress, nQueries, others,
                 timers, micro, steady, alone, repeat, prevPath>>
  /\ UNCHANGED loaderVars

\* The timer of sleep(0) of the overtaken call i fires, in its turn, and the
\* call runs on the fields as they are now: layerIdx++, then the loop is over
\* and the call returns this.toolpath, or the next layer begins, up to its
\* progress callback.
OtherResume(i) ==
  /\ Unwound
  /\ ~PushPending
  /\ i \in DOMAIN others
  /\ timers # <<>>
  /\ Head(timers) = i
  /\ LET f      == others[i].frame
         next   == [f EXCEPT !.layerIdx = f.layerIdx + 1]
         zLevel == ZLevel(next.zStart, next.layerIdx, params.stepdown)
         begun  == [next EXCEPT !.actualZ = LevelMax(zLevel, Exact(next.zEnd))]
     IN  others' =
           [others EXCEPT
              ![i] = IF next.layerIdx >= next.numLayers
                       THEN [pc |-> "returned", frame |-> next,
                             result |-> toolpath, live |-> TRUE]
                       ELSE [pc |-> "scan", frame |-> begun,
                             result |-> <<>>, live |-> FALSE]]
  /\ timers' = Tail(timers)
  /\ UNCHANGED <<mesh, bounds, params, toolpath, pc, frame, progress, nQueries, result,
                 resultLive, micro, steady, alone, repeat, prevPath>>
  /\ UNCHANGED loaderVars

\* The progress callback of the overtaken call i has returned and its layer
\* is scanned, on the fields as they are now, up to the await of line 60. A
\* call begun inside the callback has by then run to its first await, or to
\* its end.
OtherScanLayer(i) ==
  /\ i \in DOMAIN others
  /\ pc # "loop"
  /\ InCallback = i
  /\ LET outcome == ScanOutcome(others[i].frame)
     IN  /\ others' =
               [others EXCEPT
                  ![i].pc = IF outcome.threw THEN "threw" ELSE "scanned",
                  ![i].frame.contourPoints = outcome.contourPoints]
         /\ micro' = IF outcome.threw THEN micro ELSE Append(micro, i)
  /\ UNCHANGED <<mesh, bounds, params, toolpath, pc, frame, progress, nQueries, result,
                 resultLive, timers, steady, alone, repeat, prevPath>>
  /\ UNCHANGED loaderVars

\* The continuation of the await of line 60 of the overtaken call i runs, in
\* its turn: it appends the layer to this.toolpath, the array of the latest
\* call, and suspends the call in sleep(0).
OtherAppendLayer(i) ==
  /\ Unwound
  /\ i \in DOMAIN others
  /\ micro # <<>>
  /\ Head(micro) = i
  /\ toolpath' = PushLayer(toolpath, others[i].frame)
  /\ others' = [Following(others, toolpath') EXCEPT
                  ![i].pc = "sleep", ![i].frame.contourPoints = <<>>]
  /\ micro' = Tail(micro)
  /\ timers' = Append(timers, i)
  /\ result' = Aliased(result, resultLive, toolpath')
  /\ UNCHANGED <<mesh, bounds, params, pc, frame, progress, nQueries,
                 resultLive, steady, alone, repeat, prevPath>>
  /\ UNCHANGED loaderVars

\* ------------------------------------------------------------- the loader
\* A byte stream is held by what the loader reads of it: its byteLength, the
\* four bytes at offset 80, the 32-bit floats of its complete 50-byte
\* records (12 per record: normal, then three vertices) and the lines of its
\* text.
Min2(a, b) == IF a <= b THEN a ELSE b

\* The little-endian bytes of a 32-bit unsigned n.
Uint32LE(n) ==
  <<n % 256, (n \div 256) % 256, (n \div 65536) % 256, (n \div 16777216) % 256>>

\* view.getUint32(80, true)
GetUint32(buf) ==
  buf.countBytes[1] + 256 * buf.countBytes[2] + 65536 * buf.countBytes[3]
    + 16777216 * buf.countBytes[4]

\* view.getFloat32(offset, true), for offsets from 84 on.
GetFloat32(buf, offset) ==
  buf.records[((offset - HeaderSize) \div RecordSize) + 1]
             [(((offset - HeaderSize) % RecordSize) \div 4) + 1]

\* A triangle record: face normal, then the three vertices.
TriRecord(n, a, b, c) == n \o a \o b \o c

Triangles ==
  {TriRecord(<<0, 0, 1>>, <<0, 0, 0>>, <<1, 0, 0>>, <<0, 1, 0>>),
   TriRecord(<<0, 0, 0>>, <<0, 0, 0>>, <<1, 0, 0>>, <<0, 1, 0>>),
   TriRecord(<<0, 0, 2>>, <<0, 0, 2>>, <<0, 2, 2>>, <<2, 0, 2>>),
   TriRecord(<<0, 0, 1>>, <<0, 0, 0>>, <<1, 0, 0>>, <<2, 0, 0>>),
   TriRecord(<<1, 0, 0>>, <<0, 0, 0>>, <<0, 1, 0>>, <<0, 0, 1>>)}

TriangleLists == UNION {[1..n -> Triangles] : n \in 0..MaxTris}

\* The fixed-record stream of the triangles tris, with delta bytes added at
\* its end (removed, when delta is negative).
BinaryStream(tris, delta) ==
  LET len == HeaderSize + RecordSize * Len(tris) + delta
      complete == IF len >= HeaderSize
                    THEN Min2(Len(tris), (len - HeaderSize) \div RecordSize)
                    ELSE 0
  IN  [len        |-> len,
       countBytes |-> Uint32LE(Len(tris)),
       records    |-> SubSeq(tris, 1, complete),
       lines      |-> <<>>]

Deltas == {0, -1, -RecordSize, 1}

FacetLine(n)  == [kind |-> "facet", v |-> n]
VertexLine(a) == [kind |-> "vertex", v |-> a]
OtherLine     == [kind |-> "other", v |-> <<>>]

\* The lines of one facet of a textual stream.
FacetLines(t) ==
  <<FacetLine(SubSeq(t, 1, 3)), OtherLine,
    VertexLine(SubSeq(t, 4, 6)), VertexLine(SubSeq(t, 7, 9)), VertexLine(SubSeq(t, 10, 12)),
    OtherLine, OtherLine>>

RECURSIVE AllFacetLines(_)
AllFacetLines(tris) ==
  IF tris = <<>> THEN <<>> ELSE FacetLines(Head(tris)) \o AllFacetLines(Tail(tris))

\* The textual stream of the triangles tris: "solid", the facets, "endsolid".
\* Its bytes 80..83, when it has them, are letters of the text.
AsciiStream(tris) ==
  [len        |-> 19 + 160 * Len(tris),
   countBytes |-> <<118, 101, 114, 116>>,
   records    |-> <<>>,
   lines      |-> <<OtherLine>> \o AllFacetLines(tris) \o <<OtherLine>>]

\* A textual stream whose vertex lines follow no facet line.
BareVertexStream ==
  [len        |-> 120,
   countBytes |-> <<118, 101, 114, 116>>,
   records    |-> <<>>,
   lines      |-> <<VertexLine(<<0, 0, 0>>), VertexLine(<<1, 0, 0>>), VertexLine(<<0, 1, 0>>)>>]

Streams ==
  {BinaryStream(t, d) : t \in TriangleLists, d \in Deltas}
    \cup {AsciiStream(t) : t \in TriangleLists}
    \cup {BareVertexStream}

NullGeometry == [null |-> TRUE]

\* getUint32(80) needs bytes 80..83; it throws a RangeError without them.
HeaderReadable(buf) == CountOffset + 4 <= buf.len

\* isBinarySTL(buffer), for a stream whose count can be read:
\* byteLength === 84 + numTriangles * 50. The comparison is made by division:
\* JavaScript multiplies exactly, while the count of a textual stream times
\* 50 is beyond the 32-bit integers of TLC.
IsBinarySTL(buf) ==
  /\ buf.len >= HeaderSize
  /\ (buf.len - HeaderSize) % RecordSize = 0
  /\ (buf.len - HeaderSize) \div RecordSize = GetUint32(buf)

\* parseBinary(buffer)
ParseBinary(buf) ==
  LET numTriangles == GetUint32(buf)
      offsetOf(i)  == HeaderSize + RecordSize * i
  IN  [positions |-> [k \in 1..(numTriangles * 9) |->
                        GetFloat32(buf, offsetOf((k - 1) \div 9) + 12 + 4 * ((k - 1) % 9))],
       normals   |-> [k \in 1..(numTriangles * 9) |->
                        GetFloat32(buf, offsetOf((k - 1) \div 9) + 4 * ((k - 1) % 3))]]

\* The loop of parseASCII over the lines, with its current-normal register
\* (<<>> while unset).
RECURSIVE ParseLines(_, _, _)
ParseLines(lines, currentNormal, g) ==
  IF lines = <<>> THEN g
  ELSE LET line == Head(lines)
       IN  CASE line.kind = "facet" -> ParseLines(Tail(lines), line.v, g)
             [] line.kind = "vertex" ->
                  ParseLines(Tail(lines), currentNormal,
                             [positions |-> g.positions \o line.v,
                              normals   |-> g.normals \o currentNormal])
             [] OTHER -> ParseLines(Tail(lines), currentNormal, g)

\* parseASCII(buffer)
ParseASCII(buf) == ParseLines(buf.lines, <<>>, [positions |-> <<>>, normals |-> <<>>])

Cross(a, b) ==
  <<a[2] * b[3] - a[3] * b[2], a[3] * b[1] - a[1] * b[3], a[1] * b[2] - a[2] * b[1]>>

Sub(a, b) == <<a[1] - b[1], a[2] - b[2], a[3] - b[3]>>

Dot(a, b) == a[1] * b[1] + a[2] * b[2] + a[3] * b[3]

\* Vector3.length(), exact for the triangles of the model.
Length(v) == CHOOSE n \in 0..Dot(v, v) : n * n = Dot(v, v)

\* Vector3.normalize(): divideScalar(length || 1).
Normalize(v) ==
  LET len == IF Length(v) = 0 THEN 1 ELSE Length(v)
  IN  <<v[1] \div len, v[2] \div len, v[3] \div len>>

\* BufferGeometry.computeVertexNormals() on a non-indexed geometry: every
\* vertex of a triangle gets the normalized (pC - pB) x (pA - pB). The
\* values are written into the normal attribute the parser has set, which
\* keeps its length: a write beyond its end is dropped.
ComputeVertexNormals(g) ==
  LET vertex(i)  == SubSeq(g.positions, 3 * i + 1, 3 * i + 3)
      face(t)    == Normalize(Cross(Sub(vertex(3 * t + 2), vertex(3 * t + 1)),
                                    Sub(vertex(3 * t), vertex(3 * t + 1))))
      kept       == Min2(Len(g.normals), Len(g.positions))
  IN  [positions |-> g.positions,
       normals   |-> [k \in 1..kept |-> face((k - 1) \div 9)[((k - 1) % 3) + 1]]]

\* The geometry load(buffer) returns, for a stream whose count can be read.
LoadGeometry(buf) ==
  ComputeVertexNormals(IF IsBinarySTL(buf) THEN ParseBinary(buf) ELSE ParseASCII(buf))

LoaderInit ==
  /\ buffer = BinaryStream(<<>>, -HeaderSize)
  /\ geometry = NullGeometry
  /\ loadOutcome = "none"
  /\ format = "none"

\* load(buf): isBinarySTL throws on a stream without bytes 80..83, and
\* this.geometry keeps its value; otherwise the parsed geometry is stored
\* and returned.
Load(buf) ==
  /\ buffer' = buf
  /\ IF HeaderReadable(buf)
       THEN /\ geometry' = LoadGeometry(buf)
            /\ loadOutcome' = "returned"
            /\ format' = IF IsBinarySTL(buf) THEN "binary" ELSE "ascii"
       ELSE /\ geometry' = geometry
            /\ loadOutcome' = "RangeError"
            /\ format' = "none"
  /\ UNCHANGED genVars

\* ------------------------------------------------------------ the exporter
\* A line of the program text: which line of export wrote it, and the
\* numbers it spells.
Line(kind, a) == [kind |-> kind, a |-> a]

Blank == Line("blank", <<>>)

\* v.toFixed(3) of a length v: the decimal text with three places, held as
\* the number of thousandths of a millimetre it spells.
ToFixed3(v) == v * 100

\* The exporter's params after construction.
DefaultExportParams == [feedRate |-> 100, safeZ |-> 50, toolDiameter |-> 10]

\* countTotalPoints(toolpath)
RECURSIVE CountTotalPoints(_)
CountTotalPoints(path) ==
  IF path = <<>> THEN 0
  ELSE Len(Head(path).points) + CountTotalPoints(Tail(path))

\* The header comments of export.
Header(path, ep) ==
  <<Line("%", <<>>), Line("rule", <<>>), Line("title", <<>>), Line("rule", <<>>),
    Line(";", <<>>), Line("generated", <<>>),
    Line("toolDiameter", <<ep.toolDiameter>>),
    Line("feedRate", <<ep.feedRate>>),
    Line("safeZ", <<ep.safeZ>>),
    Line("totalLayers", <<Len(path)>>),
    Line("totalPoints", <<CountTotalPoints(path)>>),
    Line("rule", <<>>), Blank>>

\* The initialization block of export.
Initialization(ep) ==
  <<Line("initialization", <<>>), Line("G90", <<>>), Line("G21", <<>>),
    Line("G40 G49 G80", <<>>), Line("G94", <<>>), Blank,
    Line("F", <<ep.feedRate>>), Blank>>

\* The origin move before the retract.
OriginFirst(safeZ) ==
  <<Line("G0 X Y", <<0, 0>>), Line("G0 Z", <<ToFixed3(safeZ)>>), Blank>>

\* Move to safe position: retract, then the rapid to the origin.
SafeStart(safeZ) ==
  <<Line("G0 Z", <<ToFixed3(safeZ)>>), Line("G0 X Y", <<0, 0>>), Blank>>

\* The banner of a layer and its point count.
LayerHead(layer, total) ==
  <<Line("layer", <<layer.layer + 1, total, ToFixed3(layer.z.n)>>),
    Line("points", <<Len(layer.points)>>), Blank>>

\* A retract written for a layer without points.
EmptyLayerRetract ==
  <<Line("none", <<>>), Line("G0 Z", <<ToFixed3(expParams.safeZ)>>), Blank>>

\* The branch of export for a layer without points.
EmptyLayerLines == <<Line("none", <<>>), Blank>>

\* The approach with the plunge before the rapid XY move.
PlungeFirst(firstPoint, safeZ) ==
  <<Line("moveToStart", <<>>),
    Line("G0 Z", <<ToFixed3(safeZ)>>),
    Line("G1 Z", <<ToFixed3(firstPoint.z)>>),
    Line("G0 X Y", <<ToFixed3(firstPoint.x), ToFixed3(firstPoint.y)>>),
    Blank>>

\* Move to first point: retract, rapid XY, plunge.
FirstPointMoves(firstPoint, safeZ) ==
  <<Line("moveToStart", <<>>),
    Line("G0 Z", <<ToFixed3(safeZ)>>),
    Line("G0 X Y", <<ToFixed3(firstPoint.x), ToFixed3(firstPoint.y)>>),
    Line("G1 Z", <<ToFixed3(firstPoint.z)>>),
    Blank>>

\* A progress comment one point early.
ProgressDueEarly(j) == (j + 1) % ProgressEvery = 0

\* if (j % 50 === 0)
ProgressDue(j) == j % ProgressEvery = 0

\* The body of the cutting loop for the point at position j (0-based).
CuttingStep(points, j) ==
  LET point == points[j + 1]
  IN  <<Line("G1 X Y Z", <<ToFixed3(point.x), ToFixed3(point.y), ToFixed3(point.z)>>)>>
      \o (IF ProgressDue(j) THEN <<Line("progress", <<j, Len(points)>>)>> ELSE <<>>)

\* The cutting loop over the positions lo .. hi, in order (by halves, to
\* keep the evaluation shallow).
RECURSIVE CuttingLoop(_, _, _)
CuttingLoop(points, lo, hi) ==
  IF lo > hi THEN <<>>
  ELSE IF lo = hi THEN CuttingStep(points, lo)
  ELSE LET mid == (lo + hi) \div 2
       IN  CuttingLoop(points, lo, mid) \o CuttingLoop(points, mid + 1, hi)

\* One iteration of the main machining loop.
LayerBlock(layer, total, safeZ) ==
  LayerHead(layer, total)
  \o (IF Len(layer.points) = 0
        THEN EmptyLayerLines
        ELSE FirstPointMoves(layer.points[1], safeZ)
             \o <<Line("startCutting", <<>>)>>
             \o CuttingLoop(layer.points, 1, Len(layer.points) - 1)
             \o <<Blank, Line("G0 Z", <<ToFixed3(safeZ)>>), Blank>>)

\* The main machining loop from layer i (1-based) on.
RECURSIVE LayerBlocks(_, _, _)
LayerBlocks(path, i, safeZ) ==
  IF i > Len(path) THEN <<>>
  ELSE LayerBlock(path[i], Len(path), safeZ) \o LayerBlocks(path, i + 1, safeZ)

\* The end of the program.
Finish(safeZ) ==
  <<Line("end", <<>>), Line("G0 Z", <<ToFixed3(safeZ)>>), Line("G0 X Y", <<0, 0>>),
    Line("M5", <<>>), Line("M30", <<>>), Line("%", <<>>)>>

\* export(toolpath): the lines of the returned text.
ExportLines(path, ep) ==
  Header(path, ep) \o Initialization(ep) \o SafeStart(ep.safeZ)
  \o <<Line("machining", <<>>), Blank>>
  \o LayerBlocks(path, 1, ep.safeZ)
  \o Finish(ep.safeZ)

\* The paths given to export: up to MaxLayers layers, each with a number of
\* distinct points that puts it on one side of a progress comment.
ExportPoint(k, z) == Vec(k % (MaxX + 1), k \div (MaxX + 1), z)

\* The point counts of the layers, around the progress comments.
LayerSizes == <<0, 1, 2, ProgressEvery, ProgressEvery + 1, MaxPoints>>

ExportLayer(idx, n) ==
  [layer |-> idx, z |-> Exact(MaxZ - idx),
   points |-> [k \in 1..n |-> ExportPoint(k - 1, MaxZ - idx + 5)]]

\* Layer i of the path numbered s has the point count s + i of LayerSizes,
\* cyclically.
ExportPaths ==
  {[i \in 1..len |-> ExportLayer(i - 1, LayerSizes[((s + i) % Len(LayerSizes)) + 1])] :
     len \in 0..MaxLayers, s \in 1..Len(LayerSizes)}

\* The parameter updates the exporter receives between exports.
ExportUpdates == {[safeZ |-> 30], [safeZ |-> 50], [feedRate |-> 200]}

\* The values a setParams call may carry for a field.
UpdateValues(f) ==
  CASE f = "toolDiameter" -> {10, 20}
    [] f = "stepover"     -> {40}
    [] f = "stepdown"     -> {3, 5}
    [] f = "feedRate"     -> {100, 200}
    [] f = "safeZ"        -> {50, 30}

\* The arguments of setParams: objects that name one field, or all five.
PartialUpdates ==
  UNION {{p \in [S -> {10, 20, 40, 3, 5, 100, 200, 50, 30}] :
            \A f \in S : p[f] \in UpdateValues(f)}
         : S \in {T \in SUBSET ParamFields : Cardinality(T) \in {1, 5}}}

NoUpdate ==
  [target |-> "none", p |-> [f \in {} |-> 0],
   before |-> DefaultParams, expBefore |-> DefaultExportParams]

ExporterInit ==
  /\ expParams = DefaultExportParams
  /\ gcode = <<>>
  /\ exported = [path |-> <<>>, params |-> DefaultExportParams]
  /\ lastUpdate = NoUpdate

\* GCodeExporter.setParams(p)
ExpSetParams(p) ==
  /\ expParams' = MergeParams(expParams, p)
  /\ UNCHANGED <<gcode, exported>>

\* GCodeExporter.export(path)
Export(path) ==
  /\ gcode' = ExportLines(path, expParams)
  /\ exported' = [path |-> path, params |-> expParams]
  /\ UNCHANGED expParams

\* ToolpathGenerator.setParams(p), with the call recorded.
LoggedSetParams(p) ==
  /\ SetParams(p)
  /\ lastUpdate' = [target |-> "generator", p |-> p,
                    before |-> params, expBefore |-> expParams]

\* GCodeExporter.setParams(p), with the call recorded.
LoggedExpSetParams(p) ==
  /\ ExpSetParams(p)
  /\ lastUpdate' = [target |-> "exporter", p |-> p,
                    before |-> params, expBefore |-> expParams]

\* updateParameters() of the application, the form holding the values p:
\* one object with the five fields is handed to setParams of the generator
\* and then to setParams of the exporter.
UpdateParameters(p) ==
  /\ DOMAIN p = ParamFields
  /\ SetParams(p)
  /\ ExpSetParams(p)

\* updateParameters(), with the call recorded.
LoggedUpdateParameters(p) ==
  /\ UpdateParameters(p)
  /\ lastUpdate' = [target |-> "both", p |-> p,
                    before |-> params, expBefore |-> expParams]

\* ------------------------------------------------------- the application
\* The selection tool works on the points the pointer ray hits on the model.
\* Their coordinates are integers in units of 0.05 mm, half the unit of the
\* generator's lengths, so that an extent below the tool's minimum size and
\* above zero exists.
HitPoints == {Vec(0, 0, 0), Vec(1, 1, 1), Vec(8, 8, 8)}

\* raycaster.intersectObject(modelMesh) of a pointer event: no hit, or the
\* nearest hit first.
Intersects == {<<>>} \cup {<<p>> : p \in HitPoints}

\* const minSize = 0.1 (mm), in units of 0.05 mm.
MinSize == 2

ZeroBox == [min |-> Vec(0, 0, 0), max |-> Vec(0, 0, 0)]

\* getVolume(): the product of the three sizes.
GetVolume(b) == (b.max.x - b.min.x) * (b.max.y - b.min.y) * (b.max.z - b.min.z)

\* getBounds(): clones of min and max.
GetBounds(b) == [min |-> Vec(b.min.x, b.min.y, b.min.z),
                 max |-> Vec(b.max.x, b.max.y, b.max.z)]

\* The bounds updateSelectionHelper computes from the two points.
BoundsOf(s, e) ==
  [min |-> Vec(Min2(s.x, e.x), Min2(s.y, e.y), Min2(s.z, e.z)),
   max |-> Vec(Max2(s.x, e.x), Max2(s.y, e.y), Max2(s.z, e.z))]

\* The coordinates (low, high) two units apart, from 0 to 10, whose double
\* difference lies below the double 0.1, e.g. 0.15 - 0.05 =
\* 0.09999999999999999.
ExtentRoundsBelow == {<<1, 3>>, <<4, 6>>, <<5, 7>>, <<8, 10>>}

\* size < minSize, for the size high - low of one axis, a double.
SizeBelowMin(low, high) ==
  high - low < MinSize \/ <<low, high>> \in ExtentRoundsBelow

\* The test of finalizeSelection.
TooSmall(b) ==
  \/ SizeBelowMin(b.min.x, b.max.x)
  \/ SizeBelowMin(b.min.y, b.max.y)
  \/ SizeBelowMin(b.min.z, b.max.z)

\* currentToolpath of the application: null, or the array a generate call
\* returned, with live telling whether it is still this.toolpath of the
\* generator. A layer is held as its index and the model it was scanned on.
NoToolpath == [null |-> TRUE]

\* hasToolpath of updateButtonStates, and the test of exportGCode.
HasToolpath(tp) == tp # NoToolpath /\ Len(tp.layers) > 0

\* currentToolpath once this.toolpath is a new array.
DetachedToolpath(tp) ==
  IF tp = NoToolpath THEN tp ELSE [tp EXCEPT !.live = FALSE]

\* currentToolpath once this.toolpath holds the layers tp: a push changes the
\* array currentToolpath refers to, when that is this.toolpath.
FollowingToolpath(cur, tp) ==
  IF cur # NoToolpath /\ cur.live THEN [cur EXCEPT !.layers = tp] ELSE cur

\* No export has serialized a toolpath yet.
NoExport == [null |-> TRUE]

\* updateButtonStates(): the disabled flags it writes. tp is currentToolpath.
ButtonStates(hasModel, b, tp) ==
  [toggle   |-> ~hasModel,
   clear    |-> ~(GetVolume(b) > 0),
   generate |-> ~hasModel \/ ~(GetVolume(b) > 0),
   export   |-> ~HasToolpath(tp)]

\* The four buttons.
ButtonNames == {"toggle", "clear", "generate", "export"}

\* The surface of the model a file holds: a flat plate wider than every
\* volume, at Z = 0 or at Z = 0.3 mm, in units of 0.05 mm.
SurfaceZ(file) == IF file = "a.stl" THEN 0 ELSE 6

\* A page that declares no button disabled.
PageEnabled == [b \in ButtonNames |-> FALSE]

\* The pages examined: no button declared disabled, and every button
\* declared as updateButtonStates would set it with nothing loaded.
Pages == {PageEnabled, ButtonStates(FALSE, ZeroBox, NoToolpath)}

\* The application after initializeApp and setupEventListeners: nothing
\* loaded, nothing selected. Neither writes a disabled flag: each button is
\* as the page declares it.
AppInit(page) ==
  /\ selEnabled = FALSE
  /\ isSelecting = FALSE
  /\ hasHelper = FALSE
  /\ selBounds = ZeroBox
  /\ startPoint = Vec(0, 0, 0)
  /\ endPoint = Vec(0, 0, 0)
  /\ currentModel = FALSE
  /\ btnDisabled = page
  /\ inFlight = 0
  /\ handed = NullBox
  /\ modelMesh = "null"
  /\ currentToolpath = NoToolpath
  /\ lastExport = NoExport
  /\ calls = <<>>
  /\ shared = [mesh |-> "null", stepdown |-> 2 * DefaultParams.stepdown, toolpath |-> <<>>]
  /\ mixedScan = FALSE
  /\ nFill = 0
  /\ controlsEnabled = "undefined"
  /\ orbitState = "NONE"
  /\ cameraDragged = FALSE

\* loadSTLFile(), a file chosen and parsed: the viewport shows the new mesh;
\* currentToolpath is left as it is.
LoadSTLFile(file) ==
  /\ currentModel' = TRUE
  /\ modelMesh' = file
  /\ btnDisabled' = ButtonStates(TRUE, selBounds, currentToolpath)
  /\ UNCHANGED <<selEnabled, isSelecting, hasHelper, selBounds, startPoint, endPoint,
                 inFlight, handed, currentToolpath, lastExport, calls, shared, mixedScan,
                 nFill, controlsEnabled>>

\* toggleSelectionMode(): enable() or disable(), which write controls.enabled.
ToggleSelectionMode ==
  /\ ~btnDisabled.toggle
  /\ selEnabled' = ~selEnabled
  /\ controlsEnabled' = IF selEnabled THEN "true" ELSE "false"
  /\ UNCHANGED <<isSelecting, hasHelper, selBounds, startPoint, endPoint, currentModel,
                 btnDisabled, inFlight, handed, modelMesh, currentToolpath, lastExport,
                 calls, shared, mixedScan, nFill>>

\* onPointerDown of the selection tool, while its listener is attached:
\* createSelectionHelper replaces the outline and adds a fill.
OnPointerDown(intersects) ==
  /\ selEnabled
  /\ currentModel
  /\ isSelecting' = TRUE
  /\ IF Len(intersects) > 0
       THEN /\ nFill < MaxFills
            /\ startPoint' = intersects[1]
            /\ hasHelper' = TRUE
            /\ nFill' = nFill + 1
       ELSE UNCHANGED <<startPoint, hasHelper, nFill>>
  /\ UNCHANGED <<selEnabled, selBounds, endPoint, currentModel, btnDisabled, inFlight,
                 handed, modelMesh, currentToolpath, lastExport, calls, shared, mixedScan,
                 controlsEnabled>>

\* onPointerMove of the selection tool, while its listener is attached.
OnPointerMove(intersects) ==
  /\ selEnabled
  /\ isSelecting
  /\ currentModel
  /\ IF Len(intersects) > 0
       THEN /\ endPoint' = intersects[1]
            /\ selBounds' = IF hasHelper THEN BoundsOf(startPoint, endPoint')
                            ELSE selBounds
       ELSE UNCHANGED <<endPoint, selBounds>>
  /\ UNCHANGED <<selEnabled, isSelecting, hasHelper, startPoint, currentModel,
                 btnDisabled, inFlight, handed, modelMesh, currentToolpath, lastExport,
                 calls, shared, mixedScan, nFill, controlsEnabled>>

\* onPointerUp of the selection tool, while its listener is attached:
\* finalizeSelection clears a selection that is too small.
OnPointerUp ==
  /\ selEnabled
  /\ isSelecting
  /\ isSelecting' = FALSE
  /\ IF TooSmall(selBounds)
       THEN /\ hasHelper' = FALSE
            /\ selBounds' = ZeroBox
       ELSE UNCHANGED <<hasHelper, selBounds>>
  /\ UNCHANGED <<selEnabled, startPoint, endPoint, currentModel, btnDisabled, inFlight,
                 handed, modelMesh, currentToolpath, lastExport, calls, shared, mixedScan,
                 nFill, controlsEnabled>>

\* setBounds(min, max): the points, a new helper, the bounds recomputed from
\* the points.
SetBounds(box) ==
  /\ nFill < MaxFills
  /\ startPoint' = box.min
  /\ endPoint' = box.max
  /\ hasHelper' = TRUE
  /\ nFill' = nFill + 1
  /\ selBounds' = BoundsOf(box.min, box.max)
  /\ UNCHANGED <<selEnabled, isSelecting, currentModel, btnDisabled, inFlight, handed,
                 modelMesh, currentToolpath, lastExport, calls, shared, mixedScan,
                 controlsEnabled>>

\* OrbitControls.onPointerDown: the listener is bound at construction and
\* does not read this.enabled.
OrbitOnPointerDown(button) ==
  /\ orbitState' = CASE button = 0 -> "ROTATE"
                     [] button = 2 -> "PAN"
                     [] OTHER -> orbitState
  /\ UNCHANGED cameraDragged

\* OrbitControls.onPointerMove: a move in state ROTATE or PAN changes the
\* spherical delta or the pan offset, which update() applies to the camera.
OrbitOnPointerMove ==
  /\ cameraDragged' = (cameraDragged \/ orbitState \in {"ROTATE", "PAN"})
  /\ UNCHANGED orbitState

\* OrbitControls.onPointerUp.
OrbitOnPointerUp ==
  /\ orbitState' = "NONE"
  /\ UNCHANGED cameraDragged

\* A pointerdown event on the canvas: every listener attached to it runs.
CanvasPointerDown(button, intersects) ==
  /\ OrbitOnPointerDown(button)
  /\ \/ OnPointerDown(intersects)
     \/ ~(selEnabled /\ currentModel) /\ UNCHANGED appVars

\* A pointermove event on the canvas.
CanvasPointerMove(intersects) ==
  /\ OrbitOnPointerMove
  /\ \/ OnPointerMove(intersects)
     \/ ~(selEnabled /\ isSelecting /\ currentModel) /\ UNCHANGED appVars

\* A pointerup event on the canvas.
CanvasPointerUp ==
  /\ OrbitOnPointerUp
  /\ \/ OnPointerUp
     \/ ~(selEnabled /\ isSelecting) /\ UNCHANGED appVars

\* The click handler of the clear button: clear(), which removes the outline,
\* then updateButtonStates().
ClearSelection ==
  /\ ~btnDisabled.clear
  /\ hasHelper' = FALSE
  /\ selBounds' = ZeroBox
  /\ btnDisabled' = ButtonStates(currentModel, ZeroBox, currentToolpath)
  /\ UNCHANGED <<selEnabled, isSelecting, startPoint, endPoint, currentModel, inFlight,
                 handed, modelMesh, currentToolpath, lastExport, calls, shared, mixedScan,
                 nFill, controlsEnabled>>

\* The 500 ms interval, while selection mode is on.
Tick ==
  /\ selEnabled
  /\ btnDisabled' = ButtonStates(currentModel, selBounds, currentToolpath)
  /\ UNCHANGED <<selEnabled, isSelecting, hasHelper, selBounds, startPoint, endPoint,
                 currentModel, inFlight, handed, modelMesh, currentToolpath,
                 lastExport, calls, shared, mixedScan, nFill, controlsEnabled>>

\* The stepdown values of the parameter form, in units of 0.05 mm: 0.2 mm
\* and 0.5 mm.
Stepdowns == {4, 10}

\* numLayers of a generate call on the volume b. On the volumes and the
\* stepdowns of the application the double quotient rounds to no other
\* integer than the exact one.
AppNumLayers(b, stepdown) == CeilDiv(b.max.z - b.min.z, stepdown)

\* actualZ of layer k of the call c: zStart and zEnd are the call's own,
\* the stepdown is the generator's at that time.
AppActualZ(c, k) ==
  Max2(c.bounds.max.z - k * shared.stepdown, c.bounds.min.z)

\* The scan of a layer on the model of a file, within the volume b and under
\* the ceiling, finds a point: the plate lies within the Z range of b
\* (findSurfaceAtPoint, checkNeedsMachining) and at or below the ceiling.
LayerFound(file, b, ceiling) ==
  /\ SurfaceZ(file) >= b.min.z
  /\ SurfaceZ(file) <= b.max.z
  /\ SurfaceZ(file) <= ceiling

\* this.toolpath after a layer is scanned: a layer with no points is not
\* appended.
AppPushLayer(tp, found, layer) == IF found THEN Append(tp, layer) ELSE tp

\* generateToolpath(), up to its first timer: the guard; updateParameters
\* with the form's stepdown; the button; the snapshot of the bounds; the call
\* of generate, which stores the mesh and the bounds in the shared generator,
\* makes this.toolpath a new array and scans the first layer; and the
\* continuation of that scan, which appends the layer and sets the timer of
\* sleep(0). A refused click runs the finally clause too.
GenerateToolpath(stepdown) ==
  /\ ~btnDisabled.generate
  /\ inFlight < MaxInFlight
  /\ IF ~currentModel \/ GetVolume(selBounds) <= 0
       THEN /\ btnDisabled' = [btnDisabled EXCEPT !.generate = FALSE]
            /\ UNCHANGED <<inFlight, handed, calls, shared, currentToolpath>>
       ELSE LET b     == GetBounds(selBounds)
                found == LayerFound(modelMesh, b, b.max.z)
            IN  /\ btnDisabled' = [btnDisabled EXCEPT !.generate = TRUE]
                /\ handed' = b
                /\ inFlight' = inFlight + 1
                /\ shared' = [mesh     |-> modelMesh,
                              stepdown |-> stepdown,
                              toolpath |-> AppPushLayer(<<>>, found,
                                             [layer |-> 0, model |-> modelMesh])]
                /\ calls' = Append(calls, [bounds    |-> b,
                                           model     |-> modelMesh,
                                           numLayers |-> AppNumLayers(b, stepdown),
                                           layerIdx  |-> 0])
                /\ currentToolpath' = DetachedToolpath(currentToolpath)
  /\ UNCHANGED <<selEnabled, isSelecting, hasHelper, selBounds, startPoint, endPoint,
                 currentModel, modelMesh, lastExport, mixedScan, nFill,
                 controlsEnabled>>

\* The timer of sleep(0) that was set first fires, and its call has a layer
\* left: layerIdx++, generateContourAtZ reads this.mesh and this.bounds of
\* the shared generator, the layer is appended to this.toolpath, the array of
\* the latest call, and the call sleeps again, behind the other timers.
ScanSharedBounds ==
  /\ calls # <<>>
  /\ calls[1].layerIdx + 1 < calls[1].numLayers
  /\ LET c     == calls[1]
         k     == c.layerIdx + 1
         found == LayerFound(shared.mesh, handed, AppActualZ(c, k))
     IN  /\ shared' = [shared EXCEPT !.toolpath =
                         AppPushLayer(shared.toolpath, found,
                                      [layer |-> k, model |-> shared.mesh])]
         /\ calls' = Append(Tail(calls), [c EXCEPT !.layerIdx = k])
         /\ mixedScan' = (mixedScan \/ handed # c.bounds)
  /\ currentToolpath' = FollowingToolpath(currentToolpath, shared'.toolpath)
  /\ UNCHANGED <<selEnabled, isSelecting, hasHelper, selBounds, startPoint, endPoint,
                 currentModel, btnDisabled, inFlight, handed, modelMesh,
                 lastExport, nFill, controlsEnabled>>

\* The timer of sleep(0) that was set first fires, and its call has no layer
\* left: generate returns this.toolpath, and generateToolpath goes on after
\* its await: currentToolpath is the returned array, updateButtonStates(),
\* and finally the generate button is enabled.
GenerateToolpathDone ==
  /\ calls # <<>>
  /\ calls[1].layerIdx + 1 >= calls[1].numLayers
  /\ inFlight' = inFlight - 1
  /\ calls' = Tail(calls)
  /\ currentToolpath' = [live |-> TRUE, layers |-> shared.toolpath]
  /\ btnDisabled' = [ButtonStates(currentModel, selBounds, currentToolpath')
                       EXCEPT !.generate = FALSE]
  /\ UNCHANGED <<selEnabled, isSelecting, hasHelper, selBounds, startPoint, endPoint,
                 currentModel, handed, modelMesh, lastExport, shared, mixedScan, nFill,
                 controlsEnabled>>

\* The 'change' listener of a parameter input: updateParameters() hands the
\* form's values to the shared generator, stepdown among them, which a call
\* that sleeps reads again at its next layer.
OnParamChange(stepdown) ==
  /\ shared' = [shared EXCEPT !.stepdown = stepdown]
  /\ UNCHANGED <<selEnabled, isSelecting, hasHelper, selBounds, startPoint, endPoint,
                 currentModel, btnDisabled, inFlight, handed, modelMesh,
                 currentToolpath, lastExport, calls, mixedScan, nFill,
                 controlsEnabled>>

\* exportGCode(): refused without a toolpath or with an empty one; otherwise
\* currentToolpath is serialized, whatever model is loaded.
ExportGCode ==
  /\ ~btnDisabled.export
  /\ IF ~HasToolpath(currentToolpath)
       THEN UNCHANGED lastExport
       ELSE lastExport' =
              [models |-> {currentToolpath.layers[i].model :
                             i \in 1..Len(currentToolpath.layers)},
               loaded |-> modelMesh]
  /\ UNCHANGED <<selEnabled, isSelecting, hasHelper, selBounds, startPoint, endPoint,
                 currentModel, btnDisabled, inFlight, handed, modelMesh,
                 currentToolpath, calls, shared, mixedScan, nFill, controlsEnabled>>

\* ------------------------------------------------------ the specifications
\* The state after construction.
Init == GenInit /\ LoaderInit /\ ExporterInit /\ AppInit(PageEnabled)

\* The state after construction, on any of the pages.
InitApp == GenInit /\ LoaderInit /\ ExporterInit /\ \E page \in Pages : AppInit(page)

\* The steps of the latest generate call.
CallSteps ==
  \/ LayerBegin /\ UNCHANGED <<exporterVars, lastUpdate, uiVars>>
  \/ ScanLayer /\ UNCHANGED <<exporterVars, lastUpdate, uiVars>>
  \/ AppendLayer /\ UNCHANGED <<exporterVars, lastUpdate, uiVars>>
  \/ Resume /\ UNCHANGED <<exporterVars, lastUpdate, uiVars>>
  \/ Return /\ UNCHANGED <<exporterVars, lastUpdate, uiVars>>

\* The steps of the calls a later call has overtaken.
OvertakenSteps ==
  \/ \E i \in 1..MaxOverlap :
       OtherResume(i) /\ UNCHANGED <<exporterVars, lastUpdate, uiVars>>
  \/ \E i \in 1..MaxOverlap :
       OtherScanLayer(i) /\ UNCHANGED <<exporterVars, lastUpdate, uiVars>>
  \/ \E i \in 1..MaxOverlap :
       OtherAppendLayer(i) /\ UNCHANGED <<exporterVars, lastUpdate, uiVars>>

\* The generator with its calls made one at a time, on every mesh and volume:
\* the caller updates the parameters and calls clear wherever its code runs,
\* the progress callback and the microtasks it queues included.
Next ==
  \/ \E p \in ParamUpdates :
       SetParams(p) /\ UNCHANGED <<exporterVars, lastUpdate, uiVars>>
  \/ \E m \in MeshNames \cup {"null"}, b \in Boxes :
       /\ NumUnsettled < MaxCalls
       /\ Generate(m, b)
       /\ UNCHANGED <<exporterVars, lastUpdate, uiVars>>
  \/ CallSteps
  \/ Clear /\ UNCHANGED <<exporterVars, lastUpdate, uiVars>>

Spec == Init /\ [][Next]_vars

\* A step of a generate call: the code after an await continues, and the
\* timer of sleep(0) fires.
GenStep == CallSteps \/ OvertakenSteps

\* The meshes, volumes and parameter updates of the calls examined for
\* termination: a volume of zero Z extent is among them.
FairMeshes == {"plate0", "empty", "step"}

FairBoxes ==
  {FullBox, ShallowBox, SunkenBox, [min |-> Vec(0, 0, 2), max |-> Vec(MaxX, MaxY, 2)]}

FairUpdates == {[stepdown |-> 3], [toolDiameter |-> 20]}

FairNext ==
  \/ \E p \in FairUpdates :
       SetParams(p) /\ UNCHANGED <<exporterVars, lastUpdate, uiVars>>
  \/ \E m \in FairMeshes, b \in FairBoxes :
       /\ NumUnsettled < MaxCalls
       /\ Generate(m, b)
       /\ UNCHANGED <<exporterVars, lastUpdate, uiVars>>
  \/ CallSteps
  \/ Clear /\ UNCHANGED <<exporterVars, lastUpdate, uiVars>>

\* The generator under an event loop that runs every continuation and every
\* timer that is due.
SpecFair == Init /\ [][FairNext]_vars /\ WF_vars(GenStep)

\* The meshes, volumes and parameter updates of overlapping calls.
OverlapMeshes == {"plate0", "step", "roof"}

OverlapBoxes == {FullBox, SunkenBox, ShallowBox}

OverlapUpdates == {[stepdown |-> 3], [toolDiameter |-> 20]}

\* Overlapping generate calls: the caller calls generate, and updates the
\* parameters, wherever its code runs, while earlier calls have not settled.
OverlapCalls ==
  \/ \E p \in OverlapUpdates :
       SetParams(p) /\ UNCHANGED <<exporterVars, lastUpdate, uiVars>>
  \/ \E m \in OverlapMeshes, b \in OverlapBoxes :
       /\ NumUnsettled < MaxOverlap
       /\ Generate(m, b)
       /\ UNCHANGED <<exporterVars, lastUpdate, uiVars>>
  \/ CallSteps
  \/ OvertakenSteps

\* The generator with overlapping calls, and clear calls among them.
OverlapNext ==
  \/ OverlapCalls
  \/ Clear /\ UNCHANGED <<exporterVars, lastUpdate, uiVars>>

SpecOverlap == Init /\ [][OverlapNext]_vars

\* The loader.
LoaderNext ==
  \E buf \in Streams : Load(buf) /\ UNCHANGED <<exporterVars, lastUpdate, uiVars>>

SpecLoader == Init /\ [][LoaderNext]_vars

\* The exporter: exports of paths, and parameter updates between them.
ExportNext ==
  \/ \E p \in ExportUpdates :
       ExpSetParams(p) /\ UNCHANGED <<genVars, loaderVars, lastUpdate, uiVars>>
  \/ \E path \in ExportPaths :
       Export(path) /\ UNCHANGED <<genVars, loaderVars, lastUpdate, uiVars>>

SpecExport == Init /\ [][ExportNext]_vars

\* The values the parameter form may hold.
FormParams == {p \in PartialUpdates : DOMAIN p = ParamFields}

\* The parameters: a caller's setParams on the generator, and on the
\* exporter, each with an object that names any of the fields; and
\* updateParameters of the application, which hands the form's five values
\* to both in one event.
ParamsNext ==
  \/ \E p \in PartialUpdates :
       LoggedSetParams(p) /\ UNCHANGED <<exporterVars, uiVars>>
  \/ \E p \in PartialUpdates :
       LoggedExpSetParams(p) /\ UNCHANGED <<genVars, loaderVars, uiVars>>
  \/ \E p \in FormParams :
       LoggedUpdateParameters(p) /\ UNCHANGED uiVars

SpecParams == Init /\ [][ParamsNext]_vars

\* The application: the canvas's pointer events, the buttons, the parameter
\* inputs, the interval timer and the generate command, in any order.
AppNext ==
  \/ \E file \in {"a.stl"} :
       LoadSTLFile(file) /\ UNCHANGED <<otherVars, orbitVars>>
  \/ ToggleSelectionMode /\ UNCHANGED <<otherVars, orbitVars>>
  \/ \E intersects \in Intersects :
       CanvasPointerDown(0, intersects) /\ UNCHANGED otherVars
  \/ \E intersects \in Intersects :
       CanvasPointerMove(intersects) /\ UNCHANGED otherVars
  \/ CanvasPointerUp /\ UNCHANGED otherVars
  \/ ClearSelection /\ UNCHANGED <<otherVars, orbitVars>>
  \/ Tick /\ UNCHANGED <<otherVars, orbitVars>>
  \/ \E stepdown \in Stepdowns :
       GenerateToolpath(stepdown) /\ UNCHANGED <<otherVars, orbitVars>>
  \/ ScanSharedBounds /\ UNCHANGED <<otherVars, orbitVars>>
  \/ GenerateToolpathDone /\ UNCHANGED <<otherVars, orbitVars>>
  \/ \E stepdown \in Stepdowns :
       OnParamChange(stepdown) /\ UNCHANGED <<otherVars, orbitVars>>

SpecApp == InitApp /\ [][AppNext]_vars

\* The files of a session in which the model is replaced.
ModelFiles == {"a.stl", "b.stl"}

\* The pointer hits of a session: none, or one of two corners of a volume.
SessionIntersects == {<<>>, <<Vec(0, 0, 0)>>, <<Vec(8, 8, 8)>>}

\* A session of the application: models are loaded and replaced, a volume is
\* selected, toolpaths are generated and exported.
SessionNext ==
  \/ \E file \in ModelFiles :
       LoadSTLFile(file) /\ UNCHANGED <<otherVars, orbitVars>>
  \/ ToggleSelectionMode /\ UNCHANGED <<otherVars, orbitVars>>
  \/ \E intersects \in SessionIntersects :
       CanvasPointerDown(0, intersects) /\ UNCHANGED otherVars
  \/ \E intersects \in SessionIntersects :
       CanvasPointerMove(intersects) /\ UNCHANGED otherVars
  \/ CanvasPointerUp /\ UNCHANGED otherVars
  \/ Tick /\ UNCHANGED <<otherVars, orbitVars>>
  \/ GenerateToolpath(10) /\ UNCHANGED <<otherVars, orbitVars>>
  \/ GenerateToolpathDone /\ UNCHANGED <<otherVars, orbitVars>>
  \/ ExportGCode /\ UNCHANGED <<otherVars, orbitVars>>

SpecSession == InitApp /\ [][SessionNext]_vars

\* The variables of the application other than currentToolpath.
appRest ==
  <<selEnabled, isSelecting, hasHelper, selBounds, startPoint, endPoint,
    currentModel, btnDisabled, inFlight, handed, modelMesh, lastExport, calls,
    shared, mixedScan, nFill, controlsEnabled, orbitVars>>

\* The values the parameter form holds in the pipeline, and the models and
\* the volumes its generate calls are handed.
PipelineForms == {DefaultParams, [DefaultParams EXCEPT !.stepdown = 3]}

PipelineMeshes == {"plate0", "step"}

PipelineBoxes == {FullBox, SunkenBox}

\* An event of the application (a click, a change of an input) is handled in
\* a task of its own: no generate call is executing and no continuation of
\* an await is queued. The progress callback the application passes touches
\* the page only.
TaskTurn == Unwound /\ ~PushPending

\* generateToolpath() of the application, up to the first await of its
\* generate call: updateParameters() hands the form's values to the
\* generator and to the exporter, and generate begins on the model and the
\* selected volume. currentToolpath is still the array it was, no longer
\* this.toolpath.
GenerateFromForm(p, m, b) ==
  /\ TaskTurn
  /\ DOMAIN p = ParamFields
  /\ GenerateWith(MergeParams(params, p), m, b)
  /\ ExpSetParams(p)
  /\ currentToolpath' = DetachedToolpath(currentToolpath)

\* currentToolpath = await toolpathGenerator.generate(...): the array the
\* call returned, which is this.toolpath.
Returned == [live |-> TRUE, layers |-> toolpath]

\* exportGCode of the application: refused without a toolpath or with an
\* empty one, whatever the generate calls are doing; otherwise
\* gcodeExporter.export(currentToolpath).
ExportResult ==
  /\ TaskTurn
  /\ HasToolpath(currentToolpath)
  /\ Export(currentToolpath.layers)

\* The steps of the application's parameter form and of its generate calls,
\* each call handing the Path it returns to currentToolpath.
PipelineCalls ==
  \/ \E p \in PipelineForms :
       /\ TaskTurn
       /\ UpdateParameters(p)
       /\ UNCHANGED <<lastUpdate, currentToolpath, appRest>>
  \/ \E p \in PipelineForms, m \in PipelineMeshes, b \in PipelineBoxes :
       /\ NumUnsettled < MaxOverlap
       /\ GenerateFromForm(p, m, b)
       /\ UNCHANGED <<lastUpdate, appRest>>
  \/ /\ LayerBegin \/ ScanLayer \/ Resume
     /\ UNCHANGED <<exporterVars, lastUpdate, currentToolpath, appRest>>
  \/ /\ AppendLayer
     /\ currentToolpath' = FollowingToolpath(currentToolpath, toolpath')
     /\ UNCHANGED <<exporterVars, lastUpdate, appRest>>
  \/ /\ Return
     /\ currentToolpath' = Returned
     /\ UNCHANGED <<exporterVars, lastUpdate, appRest>>
  \/ \E i \in 1..MaxOverlap :
       /\ OtherResume(i)
       /\ currentToolpath' =
            IF others'[i].pc = "returned" THEN Returned ELSE currentToolpath
       /\ UNCHANGED <<exporterVars, lastUpdate, appRest>>
  \/ \E i \in 1..MaxOverlap :
       /\ OtherScanLayer(i)
       /\ UNCHANGED <<exporterVars, lastUpdate, currentToolpath, appRest>>
  \/ \E i \in 1..MaxOverlap :
       /\ OtherAppendLayer(i)
       /\ currentToolpath' = FollowingToolpath(currentToolpath, toolpath')
       /\ UNCHANGED <<exporterVars, lastUpdate, appRest>>

\* The pipeline: the parameter form, the generate calls and the export of
\* the application, which never calls clear() of the generator, up to the
\* first export that is not refused.
PipelineNext ==
  \/ gcode = <<>> /\ PipelineCalls
  \/ /\ gcode = <<>>
     /\ ExportResult
     /\ UNCHANGED <<genVars, loaderVars, lastUpdate, currentToolpath, appRest>>

SpecPipeline == Init /\ [][PipelineNext]_vars

\* event.button of a pointerdown: the left, the middle and the right button.
Buttons == {0, 1, 2}

\* The volumes setBounds is called with.
SetBoundsBoxes == {[min |-> Vec(0, 0, 0), max |-> Vec(8, 8, 8)],
                   [min |-> Vec(1, 1, 1), max |-> Vec(8, 8, 8)]}

\* The pointer hits on the canvas: among them drags of exactly the minimum
\* size, which the double subtraction puts on either side of it.
CanvasIntersects ==
  SessionIntersects \cup {<<Vec(1, 1, 1)>>, <<Vec(3, 3, 3)>>, <<Vec(5, 5, 5)>>}

\* The canvas: pointer events of any button reach the orbit controls and the
\* selection tool, selection mode is switched, the selection is cleared and
\* set.
CanvasNext ==
  \/ \E file \in {"a.stl"} :
       LoadSTLFile(file) /\ UNCHANGED <<otherVars, orbitVars>>
  \/ ToggleSelectionMode /\ UNCHANGED <<otherVars, orbitVars>>
  \/ \E button \in Buttons, intersects \in CanvasIntersects :
       CanvasPointerDown(button, intersects) /\ UNCHANGED otherVars
  \/ \E intersects \in CanvasIntersects :
       CanvasPointerMove(intersects) /\ UNCHANGED otherVars
  \/ CanvasPointerUp /\ UNCHANGED otherVars
  \/ ClearSelection /\ UNCHANGED <<otherVars, orbitVars>>
  \/ Tick /\ UNCHANGED <<otherVars, orbitVars>>
  \/ \E box \in SetBoundsBoxes :
       SetBounds(box) /\ UNCHANGED <<otherVars, orbitVars>>

SpecCanvas == InitApp /\ [][CanvasNext]_vars

\* ------------------------------------------------ claims on the generator
\* The layer count the specification states: ceil(E / s), for the Z extent E
\* and the stepdown s the program holds, which are doubles. Rounding to the
\* nearest double keeps a quotient on its side of every integer, so the
\* ceiling of the exact quotient of the two doubles is the ceiling of their
\* double quotient.
StatedLayers == NumLayers(bounds.max.z, bounds.min.z, params.stepdown)

\* A call on a mesh and a proper selection volume has returned; no parameter
\* changed while it ran, it overlapped no other call, and no clear has run
\* since it began.
CleanReturn ==
  pc = "returned" /\ steady /\ alone /\ mesh # "null" /\ ProperBox(bounds)

\* All points of the accumulated path, with the layer they are in.
PathPoints ==
  UNION {{[l |-> i, k |-> k] : k \in 1..Len(toolpath[i].points)} : i \in 1..Len(toolpath)}

PointAt(a) == toolpath[a.l].points[a.k]

\* C1: for every selection volume with Z extent E > 0 and stepdown s > 0 the
\* returned Path holds exactly ceil(E / s) layers, whatever the mesh.
C1_LayerCount == CleanReturn => Len(result) = StatedLayers

\* C2: the layer with index ceil(E / s) - 1, the last one generate produces,
\* has z equal to the selection's minimum Z.
C2_LastLayerAtFloor ==
  CleanReturn =>
    \A i \in 1..Len(result) :
      result[i].layer = StatedLayers - 1 => result[i].z = Exact(bounds.min.z)

\* C3 as stated: every point emitted by a call that overlaps no other lies
\* within the selection volume on all three axes, its z (surface height plus
\* tool radius) included.
C3_PointsInsideVolume ==
  alone =>
    \A a \in PathPoints :
      LET p == PointAt(a)
      IN  /\ bounds.min.x <= p.x /\ p.x <= bounds.max.x
          /\ bounds.min.y <= p.y /\ p.y <= bounds.max.y
          /\ bounds.min.z <= p.z /\ p.z <= bounds.max.z

\* C3 as amended: every point emitted by a call that overlaps no other has
\* x and y within the selection volume, and the surface height it was raised
\* from (its z minus the tool radius) within the volume's Z range and at or
\* below its layer's z.
C3_SurfaceInsideVolume ==
  alone =>
    \A a \in PathPoints :
      LET p == PointAt(a)
          surfaceZ == p.z - frame.toolRadius
      IN  /\ bounds.min.x <= p.x /\ p.x <= bounds.max.x
          /\ bounds.min.y <= p.y /\ p.y <= bounds.max.y
          /\ bounds.min.z <= surfaceZ /\ surfaceZ <= bounds.max.z
          /\ AtMost(surfaceZ, toolpath[a.l].z)

\* A point was emitted above the selection volume, in a call whose scan
\* overran the volume's maximum X.
C3_Witness ==
  /\ alone
  /\ \E a \in PathPoints : PointAt(a).z > bounds.max.z
  /\ bounds.min.x + (NumScanPositions(bounds.min.x, bounds.max.x) - 1) * ScanStep
       > bounds.max.x

\* The 0-based index of the Y row a point is in.
RowOf(p) == (p.y - bounds.min.y) \div frame.stepover

\* C4: within every layer of a call that overlaps no other the rows follow
\* each other in increasing row index, every point lies on a row, and the
\* points of a row are in non-decreasing X order when the row index is even
\* and in non-increasing X order when it is odd.
C4_ZigZag ==
  alone =>
    /\ \A a \in PathPoints :
         (PointAt(a).y - bounds.min.y) % frame.stepover = 0
    /\ \A a \in PathPoints :
         a.k > 1 =>
           LET p == toolpath[a.l].points[a.k - 1]
               q == PointAt(a)
           IN  /\ RowOf(p) <= RowOf(q)
               /\ RowOf(p) = RowOf(q) =>
                    IF RowOf(p) % 2 = 0 THEN p.x <= q.x ELSE p.x >= q.x

\* A layer holds an odd row emitted right to left between two even rows.
C4_Witness ==
  \E a \in PathPoints :
    /\ alone
    /\ a.k > 1
    /\ RowOf(PointAt(a)) = 1
    /\ RowOf(toolpath[a.l].points[a.k - 1]) = 1
    /\ toolpath[a.l].points[a.k - 1].x > PointAt(a).x
    /\ \E b \in PathPoints : b.l = a.l /\ RowOf(PointAt(b)) = 2
    /\ \E b \in PathPoints : b.l = a.l /\ RowOf(PointAt(b)) = 0

\* The positions and ceilings the surface query is examined at.
QueryXs == 0..(MaxX + 1)
QueryYs == {0, MaxY}
QueryCeilings == {Level(n, e) : n \in 0..(MaxZ + 1), e \in {-1, 0, 1}}

\* The hits at (x, y) whose Z lies between the floor and the ceiling.
HitsWithin(x, y, ceilingZ) ==
  {z \in HitsAt(mesh, x, y) : bounds.min.z <= z /\ AtMost(z, ceilingZ)}

\* C5: whenever a layer is about to be scanned, findSurfaceAtPoint(x, y,
\* ceilingZ) is null when no hit lies in [selection.min.z, ceilingZ];
\* otherwise it is a hit in that range such that every hit nearer to the
\* ray's origin (higher) is out of range.
C5_FirstHitInRange ==
  pc = "scan" /\ mesh # "null" =>
    \A x \in QueryXs, y \in QueryYs, c \in QueryCeilings :
      LET r == FindSurfaceAtPoint(x, y, c)
      IN  IF HitsWithin(x, y, c) = {}
            THEN r = Null
            ELSE /\ r # Null
                 /\ r[1] \in HitsWithin(x, y, c)
                 /\ \A z \in HitsAt(mesh, x, y) :
                      z > r[1] => z \notin HitsWithin(x, y, c)

\* A layer is about to be scanned where one query skips a hit above the
\* ceiling and returns a lower one, and another finds only a hit below the
\* floor and returns null.
C5_Witness ==
  /\ pc = "scan"
  /\ mesh # "null"
  /\ \E x \in QueryXs :
       /\ FindSurfaceAtPoint(x, 0, frame.actualZ) # Null
       /\ \E z \in HitsAt(mesh, x, 0) : ~AtMost(z, frame.actualZ)
  /\ \E x \in QueryXs :
       /\ FindSurfaceAtPoint(x, 0, frame.actualZ) = Null
       /\ \E z \in HitsAt(mesh, x, 0) : z < bounds.min.z

\* The current call, which overlaps no other, was made with no mesh, or with
\* a selection volume of zero or negative extent on some axis.
BadInput == pc # "idle" /\ alone /\ (mesh = "null" \/ ~ProperBox(bounds))

\* C6: a call with no mesh or a degenerate selection volume fails before any
\* work: no progress callback, no surface query, no layer, no normal return.
C6_RejectedBeforeWork ==
  BadInput =>
    /\ progress = <<>>
    /\ nQueries = 0
    /\ toolpath = <<>>
    /\ pc # "returned"

\* C10: a call that repeats the inputs of the call completed just before it,
\* with no parameter change in between, returns an equal Path.
C10_Deterministic == (pc = "returned" /\ repeat) => result = prevPath

\* A repeated call has returned a Path of several layers with points.
C10_Witness ==
  /\ pc = "returned"
  /\ repeat
  /\ Len(result) > 1
  /\ Len(result[1].points) > 1

\* C13: a layer for which no scanned point qualifies is still appended, with
\* no points: every layer index 0 .. ceil(E / s) - 1 is in the returned Path,
\* and the layer at position i (0-based) has index i.
C13_EmptyLayersKept ==
  CleanReturn =>
    /\ \A k \in 0..(StatedLayers - 1) : \E i \in 1..Len(result) : result[i].layer = k
    /\ \A i \in 1..Len(result) : result[i].layer = i - 1

\* C14: every emitted point has z equal to the height the surface query
\* returns at its (x, y) for its layer's ceiling, plus the tool radius of the
\* call, toolDiameter / 2; so on the flat plate at Z = 0 every point of a
\* layer whose ceiling is >= 0 has z = toolRadius, and no layer whose ceiling
\* is < 0 has points.
C14_RaisedByToolRadius ==
  /\ pc # "idle" /\ steady => 2 * frame.toolRadius = params.toolDiameter
  /\ alone =>
       \A a \in PathPoints :
         LET p       == PointAt(a)
             ceiling == toolpath[a.l].z
             surface == FindSurfaceAtPoint(p.x, p.y, ceiling)
         IN  /\ surface # Null
             /\ p.z = surface[1] + frame.toolRadius
             /\ mesh = "plate0" => AtMost(0, ceiling) /\ p.z = frame.toolRadius

\* On the flat plate, a call over a volume that reaches below Z = 0 has
\* returned: it scanned a layer whose ceiling is below 0, and its path has
\* points, raised by a nonzero tool radius.
C14_Witness ==
  /\ pc = "returned"
  /\ alone
  /\ mesh = "plate0"
  /\ frame.toolRadius > 0
  /\ bounds.min.z < 0
  /\ ~AtMost(0, frame.actualZ)
  /\ PathPoints # {}

\* The layers of the current call whose scan has completed.
LayersScanned ==
  IF Suspended(pc) THEN frame.layerIdx + 1 ELSE frame.layerIdx

\* C15: the progress callback receives k / L only after the scan of the k-th
\* layer has completed, so the callbacks made so far never outnumber the
\* layers scanned so far, and a reported progress of 1 (k = L) means every
\* layer has been scanned.
C15_ProgressAfterScan ==
  alone /\ mesh # "null" /\ ProperBox(bounds) =>
    /\ Len(progress) <= LayersScanned
    /\ \A n \in 1..Len(progress) :
         progress[n][1] = progress[n][2] => LayersScanned = frame.numLayers

\* The Y positions of the rows of layer i of the accumulated path.
RowYs(i) == {toolpath[i].points[k].y : k \in 1..Len(toolpath[i].points)}

\* The Y positions the specification states: min.y + j * stepover, up to and
\* including max.y.
StatedRowYs ==
  {y \in bounds.min.y..bounds.max.y : (y - bounds.min.y) % frame.stepover = 0}

\* C16: in every layer a row is scanned at each y_j = min.y + j * stepover
\* with y_j <= max.y, the row at max.y itself included, and nowhere else. On
\* the flat plate every scanned row of a layer that found the plate has
\* points, so the rows of such a layer are exactly the stated positions.
C16_RowsUpToMaxY ==
  alone /\ mesh = "plate0" /\ ProperBox(bounds) =>
    \A i \in 1..Len(toolpath) : RowYs(i) = StatedRowYs

\* getTotalPoints()
GetTotalPoints ==
  LET counts == [i \in 1..Len(toolpath) |-> Len(toolpath[i].points)]
      Sum[i \in 0..Len(toolpath)] == IF i = 0 THEN 0 ELSE Sum[i - 1] + counts[i]
  IN  Sum[Len(toolpath)]

\* A generate call has begun and has not thrown.
InCall == pc \in {"loop", "scan", "scanned", "sleep", "returned"}

\* The z of layer k of the current call, from the call's own zStart and zEnd.
OwnLayerZ(k) ==
  LevelMax(ZLevel(frame.zStart, k, params.stepdown), Exact(frame.zEnd))

\* The number of points the scans of the current call's layers give, each
\* on the mesh and the volume the call was handed: what the layers computed
\* by this call hold, and nothing else.
OwnPoints ==
  LET count(k) == Len(GenerateContourAtZ(OwnLayerZ(k), frame.stepover, frame.toolRadius))
      Sum[k \in 0..frame.numLayers] == IF k = 0 THEN 0 ELSE Sum[k - 1] + count(k - 1)
  IN  Sum[frame.numLayers]

\* C21: each generate call, overlapping or not, makes the instance's mesh
\* and bounds the ones it was handed and empties the accumulated path before
\* it produces a layer; with calls that do not overlap, and no clear, the
\* fields stay the call's own, the accumulated path holds only layers of the
\* current call - each is what this call's scan of the layer's z gives on
\* this call's mesh and volume - the returned Path is that path, and
\* getTotalPoints afterwards is the number of points this call's layers
\* hold, whatever earlier calls produced.
C21_CallStartsAfresh ==
  /\ pc = "loop" /\ frame.layerIdx = 0 =>
       /\ mesh = frame.mesh /\ bounds = frame.bounds
       /\ toolpath = <<>>
  /\ InCall /\ alone =>
       /\ mesh = frame.mesh /\ bounds = frame.bounds
       /\ Len(toolpath) <= LayersScanned
       /\ steady /\ mesh # "null" =>
            \A i \in 1..Len(toolpath) :
              /\ toolpath[i].layer < LayersScanned
              /\ toolpath[i].points =
                   GenerateContourAtZ(toolpath[i].z, frame.stepover, frame.toolRadius)
       /\ pc = "returned" =>
            /\ result = toolpath
            /\ steady /\ mesh # "null" => GetTotalPoints = OwnPoints

\* A call has returned a Path with points, right after a call on the same
\* mesh and volume that had returned a Path with points too: the fields are
\* the ones this call was handed and the points counted are this call's
\* alone.
C21_Witness ==
  /\ pc = "returned"
  /\ repeat /\ alone /\ steady
  /\ Len(prevPath) > 0
  /\ mesh = frame.mesh /\ bounds = frame.bounds
  /\ result = toolpath
  /\ GetTotalPoints > 0
  /\ GetTotalPoints = OwnPoints

\* C22: in every Path returned by a call whose parameters were those of the
\* call throughout, the layers' z values are strictly decreasing in emission
\* order, each lies in [selection.min.z, selection.max.z], and the layer with
\* index 0, when present, has z = selection.max.z.
C22_LayersDescend ==
  CleanReturn =>
    /\ \A i \in 1..Len(result) :
         /\ LevelLeq(Exact(bounds.min.z), result[i].z)
         /\ LevelLeq(result[i].z, Exact(bounds.max.z))
         /\ result[i].layer = 0 => result[i].z = Exact(bounds.max.z)
    /\ \A i, k \in 1..Len(result) : i < k => ~LevelLeq(result[i].z, result[k].z)

\* A call has returned a Path of three layers or more.
C22_Witness ==
  /\ CleanReturn
  /\ Len(result) >= 3
  /\ result[1].layer = 0


\* The highest of a non-empty set of heights.
Highest(S) == CHOOSE z \in S : \A w \in S : w <= z

\* C26: whenever a layer is about to be scanned, findSurfaceAtPoint(x, y,
\* ceilingZ) equals the maximum Z among the hits with
\* selection.min.z <= Z <= ceilingZ, and is null exactly when there is no
\* such hit.
C26_HighestHitInRange ==
  pc = "scan" /\ mesh # "null" =>
    \A x \in QueryXs, y \in QueryYs, c \in QueryCeilings :
      LET r == FindSurfaceAtPoint(x, y, c)
          H == HitsWithin(x, y, c)
      IN  /\ (r = Null) <=> (H = {})
          /\ H # {} => r[1] = Highest(H)

\* A layer is about to be scanned where a query has two hits in range and
\* returns the higher one.
C26_Witness ==
  /\ pc = "scan"
  /\ mesh # "null"
  /\ \E x \in QueryXs :
       /\ Cardinality(HitsWithin(x, 0, frame.actualZ)) >= 2
       /\ FindSurfaceAtPoint(x, 0, frame.actualZ)
            = <<Highest(HitsWithin(x, 0, frame.actualZ))>>


\* The current call, which overlaps no other, was made on a mesh, with a
\* volume with min <= max.
ValidCall ==
  /\ alone
  /\ mesh # "null"
  /\ bounds.min.x <= bounds.max.x
  /\ bounds.min.y <= bounds.max.y
  /\ bounds.min.z <= bounds.max.z

\* The callback values, as fractions, increase strictly and end at 1.
ProgressClimbsToOne ==
  /\ \A i, j \in 1..Len(progress) :
       i < j => progress[i][1] * progress[j][2] < progress[j][1] * progress[i][2]
  /\ Len(progress) > 0 => progress[Len(progress)][1] = progress[Len(progress)][2]

\* C27: a generate call on a mesh and a volume with min <= max eventually
\* returns; by then it has yielded between layers (layerIdx counts the
\* yields) and invoked the progress callback ceil(E / stepdown) times each,
\* with strictly increasing values whose last value is 1.
C27_ReturnsAfterAllLayers ==
  /\ [](pc = "returned" /\ ValidCall =>
          /\ Len(progress) = frame.layerIdx
          /\ steady => frame.layerIdx = StatedLayers
          /\ ProgressClimbsToOne)
  /\ (pc \in {"loop", "scan", "scanned", "sleep"} /\ ValidCall)
       ~> (pc = "returned" \/ ~alone)

\* A call of three layers has returned after three yields and three
\* callbacks.
C27_Witness ==
  /\ pc = "returned"
  /\ ValidCall
  /\ steady
  /\ frame.layerIdx = 3
  /\ progress = <<<<1, 3>>, <<2, 3>>, <<3, 3>>>>

\* --------------------------------------------------- claims on the loader
\* The count of the stream can be read and its records end before the
\* declared count is reached: byteLength < 84 + count * 50.
Truncated(buf) ==
  /\ HeaderReadable(buf)
  /\ (buf.len - HeaderSize) \div RecordSize < GetUint32(buf)

\* C7: load fails, and returns no mesh, for a fixed-record stream shorter
\* than 84 + count * 50 bytes.
C7_TruncatedRejected ==
  (loadOutcome # "none" /\ buffer.lines = <<>> /\ Truncated(buffer))
     => loadOutcome # "returned"

\* The byteLength of the stream is exactly 84 + count * 50 for the count it
\* declares at offset 80.
ExactLength(buf) ==
  /\ HeaderReadable(buf)
  /\ \E n \in 0..(buf.len \div RecordSize) :
       GetUint32(buf) = n /\ buf.len = HeaderSize + n * RecordSize

\* C8: a stream is classified as fixed-record exactly when its length is
\* 84 + count * 50, and as textual at any other length, streams shorter
\* than 84 bytes included, with no error raised.
C8_Classified ==
  loadOutcome # "none" =>
    format = (IF ExactLength(buffer) THEN "binary" ELSE "ascii")

\* The triangle (0-based index) of the loaded geometry: its vertices and the
\* normals of its three vertices.
VertexOf(t, j) == SubSeq(geometry.positions, 9 * t + 3 * j + 1, 9 * t + 3 * j + 3)
NormalOf(t, j) == SubSeq(geometry.normals, 9 * t + 3 * j + 1, 9 * t + 3 * j + 3)

\* A fixed-record stream was loaded.
BinaryLoaded == loadOutcome = "returned" /\ format = "binary"

\* The loaded geometry holds the vertices of the stream's records, in order.
VerticesKept ==
  /\ Len(geometry.positions) = 9 * Len(buffer.records)
  /\ \A t \in 0..(Len(buffer.records) - 1), j \in 0..2 :
       VertexOf(t, j) = SubSeq(buffer.records[t + 1], 4 + 3 * j, 6 + 3 * j)

\* C9: the loaded mesh holds the stream's vertices in order, and
\* for each triangle the stored face normal as the normal of its three
\* vertices.
C9_StoredNormalsKept ==
  BinaryLoaded =>
    /\ VerticesKept
    /\ Len(geometry.normals) = 9 * Len(buffer.records)
    /\ \A t \in 0..(Len(buffer.records) - 1), j \in 0..2 :
         NormalOf(t, j) = SubSeq(buffer.records[t + 1], 1, 3)

\* ------------------------------------------------- claims on the exporter
\* An export call has returned.
Exported == gcode # <<>>

\* The positions of the lines of the given kinds in the exported text.
LinesOfKind(kinds) == {k \in 1..Len(gcode) : gcode[k].kind \in kinds}

\* The position of the banner of the i-th layer block (1-based).
BannerAt(i) ==
  CHOOSE k \in LinesOfKind({"layer"}) :
    Cardinality({b \in LinesOfKind({"layer"}) : b < k}) = i - 1

\* The position of the first line after the block that starts at banner k.
BlockEndAt(k) ==
  CHOOSE e \in LinesOfKind({"layer", "end"}) :
    e > k /\ \A m \in (k + 1)..(e - 1) : gcode[m].kind \notin {"layer", "end"}

\* The lines of the i-th layer block, from its banner on.
BlockOf(i) == SubSeq(gcode, BannerAt(i), BlockEndAt(BannerAt(i)) - 1)

IsMotion(l) == l.kind \in {"G0 Z", "G0 X Y", "G1 Z", "G1 X Y Z"}

\* The text has one block per layer of the exported path.
OneBlockPerLayer ==
  Cardinality(LinesOfKind({"layer"})) = Len(exported.path)

\* The retract to the safe height of the export call.
RetractLine == Line("G0 Z", <<ToFixed3(exported.params.safeZ)>>)

\* The feed move to a point.
FeedLine(pt) == Line("G1 X Y Z", <<ToFixed3(pt.x), ToFixed3(pt.y), ToFixed3(pt.z)>>)

\* C11: for every layer with n >= 1 points, the motion commands of the
\* layer's block are, in this order and with no other motion command among
\* them: a rapid G0 Z to safeZ, a rapid G0 X Y to the first point, a feed
\* move G1 Z to the first point's z, one feed move G1 X Y Z per remaining
\* point in the layer's order, and a rapid G0 Z back to safeZ.
C11_LayerMoves ==
  Exported =>
    /\ OneBlockPerLayer
    /\ \A i \in 1..Len(exported.path) :
         LET pts == exported.path[i].points
             n   == Len(pts)
         IN  n >= 1 =>
               SelectSeq(BlockOf(i), IsMotion) =
                 <<RetractLine,
                   Line("G0 X Y", <<ToFixed3(pts[1].x), ToFixed3(pts[1].y)>>),
                   Line("G1 Z", <<ToFixed3(pts[1].z)>>)>>
                 \o [j \in 1..(n - 1) |-> FeedLine(pts[j + 1])]
                 \o <<RetractLine>>

\* A path with a two-point layer and a layer of ProgressEvery points or
\* more has been exported with a safe height other than the default.
C11_Witness ==
  /\ Exported
  /\ exported.params.safeZ # DefaultExportParams.safeZ
  /\ \E i, k \in 1..Len(exported.path) :
       /\ Len(exported.path[i].points) = 2
       /\ Len(SelectSeq(BlockOf(i), IsMotion)) = 5
       /\ Len(exported.path[k].points) >= ProgressEvery

\* A command that sets the tool's Z.
ZChanging(l) == l.kind \in {"G0 Z", "G1 Z", "G1 X Y Z"}

\* C17: every rapid XY move of the exported text, the moves to the origin
\* included, is made at safeZ: the most recent Z-changing command before it
\* is a rapid G0 Z to safeZ, and no feed move lies between the two.
C17_RapidXYAtSafeZ ==
  Exported =>
    \A k \in LinesOfKind({"G0 X Y"}) :
      LET prior == {m \in 1..(k - 1) : ZChanging(gcode[m])}
      IN  /\ prior # {}
          /\ LET last == CHOOSE m \in prior : \A q \in prior : q <= m
             IN  /\ gcode[last] = RetractLine
                 /\ \A m \in (last + 1)..(k - 1) :
                      gcode[m].kind \notin {"G1 Z", "G1 X Y Z"}

\* A path with two layers that have points has been exported with a safe
\* height other than the default: the text has four rapid XY moves.
C17_Witness ==
  /\ Exported
  /\ exported.params.safeZ # DefaultExportParams.safeZ
  /\ Len(exported.path) >= 2
  /\ \A i \in 1..Len(exported.path) : Len(exported.path[i].points) >= 1
  /\ Cardinality(LinesOfKind({"G0 X Y"})) >= 4

\* The value the commands up to line k have given an axis: <<v>>, or <<>>
\* while no command has set it.
AxisAt(k, axis) ==
  LET sets(l) == IF axis = "z" THEN ZChanging(l)
                 ELSE l.kind \in {"G0 X Y", "G1 X Y Z"}
      setters == {m \in 1..k : sets(gcode[m])}
  IN  IF setters = {} THEN <<>>
      ELSE LET l == gcode[CHOOSE m \in setters : \A q \in setters : q <= m]
           IN  <<l.a[CASE axis = "x" -> 1
                       [] axis = "y" -> 2
                       [] axis = "z" -> Len(l.a)]>>

\* The tool position after line k of the exported text.
ToolAt(k) == [x |-> AxisAt(k, "x"), y |-> AxisAt(k, "y"), z |-> AxisAt(k, "z")]

\* C18: for a layer with zero points the text has the layer's banner and a
\* placeholder comment and no motion command, and the tool position after
\* the layer's block is the position before it.
C18_EmptyLayerNoMotion ==
  Exported =>
    /\ OneBlockPerLayer
    /\ \A i \in 1..Len(exported.path) :
         Len(exported.path[i].points) = 0 =>
           LET block == BlockOf(i)
           IN  /\ block[1].kind = "layer"
               /\ \E m \in 1..Len(block) : block[m].kind = "none"
               /\ \A m \in 1..Len(block) : ~IsMotion(block[m])
               /\ ToolAt(BannerAt(i) - 1) = ToolAt(BlockEndAt(BannerAt(i)) - 1)

\* A path whose second layer has no points and whose first has been cut has
\* been exported.
C18_Witness ==
  /\ Exported
  /\ Len(exported.path) >= 2
  /\ Len(exported.path[1].points) > 1
  /\ Len(exported.path[2].points) = 0
  /\ ToolAt(BannerAt(2) - 1).y # <<0>>

\* C19: within a layer of n points a progress comment follows the feed move
\* of the point at position j (0-based) exactly when j >= 1 and j is a
\* multiple of 50; the layer's block has floor((n - 1) / 50) progress
\* comments, and none for n <= 50.
C19_ProgressEveryFifty ==
  Exported =>
    /\ OneBlockPerLayer
    /\ \A i \in 1..Len(exported.path) :
         LET block    == BlockOf(i)
             pts      == exported.path[i].points
             n        == Len(pts)
             feeds    == {m \in 1..Len(block) : block[m].kind = "G1 X Y Z"}
             comments == {m \in 1..Len(block) : block[m].kind = "progress"}
             PosOf(m) == Cardinality({q \in feeds : q <= m})
         IN  /\ \A m \in feeds :
                  /\ block[m] = FeedLine(pts[PosOf(m) + 1])
                  /\ (m + 1 \in comments) <=> (PosOf(m) >= 1 /\ PosOf(m) % 50 = 0)
             /\ \A q \in comments : q - 1 \in feeds /\ block[q].a = <<PosOf(q - 1), n>>
             /\ Cardinality(comments) = IF n >= 1 THEN (n - 1) \div 50 ELSE 0
             /\ n <= 50 => comments = {}

\* A path with a layer of 50 points, which has no progress comment, and a
\* layer of 51 points, which has one, has been exported.
C19_Witness ==
  /\ Exported
  /\ \E i, k \in 1..Len(exported.path) :
       /\ Len(exported.path[i].points) = 50
       /\ Len(exported.path[k].points) = 51
       /\ \E m \in 1..Len(BlockOf(k)) : BlockOf(k)[m] = Line("progress", <<50, 51>>)

\* ----------------------------------------------- claims on the parameters
\* The object held, before the call, the fields before and, after it, the
\* fields held: the fields named in p have the given values and every other
\* field that was held is as it was.
Merged(held, before, p) ==
  /\ DOMAIN held = (DOMAIN before) \cup (DOMAIN p)
  /\ \A f \in DOMAIN p : held[f] = p[f]
  /\ \A f \in (DOMAIN before) \ (DOMAIN p) : held[f] = before[f]

\* C20: setParams(p), on the generator and on the exporter, sets exactly the
\* fields named in p to the given values and leaves every other held field
\* as it was (and the fields of the object it was not called on); and after
\* any sequence of calls each of toolDiameter, stepover, stepdown, feedRate
\* and safeZ of the generator has a value, its default or a value that was
\* set.
C20_MergeKeepsOtherFields ==
  /\ ParamFields \subseteq DOMAIN params
  /\ \A f \in ParamFields : params[f] \in {DefaultParams[f]} \cup UpdateValues(f)
  /\ IF lastUpdate.target \in {"generator", "both"}
       THEN Merged(params, lastUpdate.before, lastUpdate.p)
       ELSE params = lastUpdate.before
  /\ IF lastUpdate.target \in {"exporter", "both"}
       THEN Merged(expParams, lastUpdate.expBefore, lastUpdate.p)
       ELSE expParams = lastUpdate.expBefore

\* The generator holds a value that was set earlier, and the exporter, which
\* held a feed rate other than its default, has just been given a stepdown
\* alone: it keeps that feed rate and gains the field.
C20_Witness ==
  /\ params.toolDiameter # DefaultParams.toolDiameter
  /\ lastUpdate.target = "exporter"
  /\ DOMAIN lastUpdate.p = {"stepdown"}
  /\ "stepdown" \notin DOMAIN lastUpdate.expBefore
  /\ lastUpdate.expBefore.feedRate # DefaultExportParams.feedRate
  /\ expParams.feedRate = lastUpdate.expBefore.feedRate
  /\ expParams.stepdown = lastUpdate.p.stepdown


\* The banner numbers of the exported text, in the order of the text.
BannerNumbers ==
  [i \in 1..Cardinality(LinesOfKind({"layer"})) |-> gcode[BannerAt(i)].a[1]]

\* The totals the banners of the exported text spell.
BannerTotals ==
  {gcode[k].a[2] : k \in LinesOfKind({"layer"})}

\* C25: in the text exported from a Path that generate returned, the banners
\* 'Layer i/T' carry T, the number of layers of the Path, and the numbers
\* 1, 2, ..., T in the order of the text.
C25_BannersCountLayers ==
  (Exported /\ exported.path = result) =>
    /\ Len(BannerNumbers) = Len(result)
    /\ BannerTotals = {Len(result)}
    /\ \A i \in 1..Len(BannerNumbers) : BannerNumbers[i] = i

\* ---------------------------------------------- claims on the application
\* C12: every volume the application hands to generate has min <= max on
\* each axis and an extent of at least the minimum size (0.1 mm) on each of
\* the three axes.
C12_HandedVolumeLargeEnough ==
  handed # NullBox =>
    /\ handed.min.x <= handed.max.x
    /\ handed.min.y <= handed.max.y
    /\ handed.min.z <= handed.max.z
    /\ handed.max.x - handed.min.x >= MinSize
    /\ handed.max.y - handed.min.y >= MinSize
    /\ handed.max.z - handed.min.z >= MinSize


\* C23: at most one generate call of the application is in flight at any
\* time, and while one is, the generate button stays disabled.
C23_OneGenerateInFlight ==
  /\ inFlight <= 1
  /\ inFlight > 0 => btnDisabled.generate


\* C24: whenever exportGCode serializes a toolpath, that toolpath was
\* generated from the model that is loaded at that time.
C24_ExportOfLoadedModel ==
  lastExport # NoExport => lastExport.models = {lastExport.loaded}


\* C28: every layer of an in-flight generation is scanned against the volume
\* that generateToolpath took from getBounds for that generation.
C28_LayersScanSnapshot == ~mixedScan


\* C29: while selection mode is enabled, no step changes the orbit controls'
\* rotate or pan state or drags the camera.
C29_SelectionLeavesCamera ==
  [][(selEnabled /\ selEnabled') =>
       (orbitState' = orbitState /\ cameraDragged' = cameraDragged)]_vars

\* The selection outlines in the scene.
NumOutlines == IF hasHelper THEN 1 ELSE 0

\* C30: the scene holds at most one selection outline and at most one
\* selection fill, and neither once clear() has removed the selection.
C30_OneOutlineOneFill ==
  /\ NumOutlines <= 1
  /\ nFill <= 1
  /\ ~hasHelper => nFill = 0

====
